---- MODULE Spec2Model ----
(***************************************************************************)
(* Model of the probabilistic demand-forecasting engine of flux_2:         *)
(*   services/features.py              FeatureEngineeringService           *)
(*   services/forecast.py              ForecastService                     *)
(*   services/forecasting/bayesian.py  BayesianForecaster                  *)
(*                                                                         *)
(* Numbers.  Python floats are modelled as exact rationals <<num, den>>    *)
(* with den > 0, kept in lowest terms, so that equal values are equal      *)
(* tuples.  Dates are day numbers; day 0 is a Monday, so the weekday of    *)
(* date d (0 = Monday .. 6 = Sunday) is d % 7.                             *)
(***************************************************************************)
EXTENDS Integers, Sequences, FiniteSets, TLC

VARIABLES
    txns,             \* rows of Transaction joined with TransactionItem
    snapshots,        \* InventorySnapshot rows with stockout_flag = 'Y'
    forecasts,        \* persisted DemandForecast rows, in insertion order
    category_priors,  \* BayesianForecaster.category_priors of the service
    args,             \* arguments of the call under way / last made
    ret,              \* what that call returned (or raised)
    rng,              \* state of the process-wide generator np.random
    pc                \* position of each thread running predict_item

vars == <<txns, snapshots, forecasts, category_priors, args, ret, rng, pc>>

\* np.random of a process in which a single call runs at a time: the draws
\* of that call are chosen where the call is made
Unseeded == [pos |-> 0, stream |-> <<>>]

\* no thread is inside predict_item
NoThreads == <<>>

----------------------------------------------------------------------------
(* Bounds of the model *)

\* number of Monte Carlo draws per future date (n_samples = 10000 in the code)
NSamples == 2
\* largest value a Negative-Binomial draw takes in the model
MaxSample == 1
\* longest item history handed to predict_item directly
MaxHist == 2
\* the wall-clock date of the run (date.today())
Today == 100
\* most identical observations added to a history, one at a time
MaxObs == 10

----------------------------------------------------------------------------
(* Exact rational arithmetic standing for float arithmetic *)

Abs(x) == IF x < 0 THEN -x ELSE x

RECURSIVE GCD(_, _)
GCD(a, b) == IF b = 0 THEN a ELSE GCD(b, a % b)

\* the rational n/d (d # 0) in lowest terms with a positive denominator
R(n, d) ==
    LET s == IF d < 0 THEN -1 ELSE 1
        g == GCD(Abs(n), Abs(d))
    IN  <<(s * n) \div g, (s * d) \div g>>

RInt(i) == <<i, 1>>
RAdd(a, b) == R(a[1] * b[2] + b[1] * a[2], a[2] * b[2])
RSub(a, b) == R(a[1] * b[2] - b[1] * a[2], a[2] * b[2])
RMul(a, b) == R(a[1] * b[1], a[2] * b[2])
RDiv(a, b) == R(a[1] * b[2], a[2] * b[1])
RLt(a, b) == a[1] * b[2] < b[1] * a[2]
RLe(a, b) == a[1] * b[2] <= b[1] * a[2]
RMax(a, b) == IF RLt(a, b) THEN b ELSE a
RMin(a, b) == IF RLt(b, a) THEN b ELSE a
RAbs(a) == <<Abs(a[1]), a[2]>>

RECURSIVE RSum(_)
RSum(s) == IF s = <<>> THEN RInt(0) ELSE RAdd(s[1], RSum(Tail(s)))

\* f"{x:.2f}": x rounded to hundredths, ties to even, as a count of hundredths
Round2(x) ==
    LET t == 100 * x[1]
        q == t \div x[2]
        r == t % x[2]
    IN  IF 2 * r < x[2] THEN q
        ELSE IF 2 * r > x[2] THEN q + 1
        ELSE IF q % 2 = 0 THEN q ELSE q + 1

Min2(a, b) == IF a < b THEN a ELSE b

\* curr.weekday() / DatetimeIndex.dayofweek
weekday(d) == d % 7

----------------------------------------------------------------------------
(* bayesian.py: BayesianForecaster *)

\* GammaParams(alpha, beta)
GammaParams(a, b) == [alpha |-> a, beta |-> b]

\* GammaParams.mean
GammaMean(g) == RDiv(g.alpha, g.beta)

\* __init__: global_alpha = 2.0, global_beta = 0.5
global_prior == GammaParams(RInt(2), R(1, 2))

\* the dict with no entry
EmptyDict == [x \in {} |-> 0]

\* dict.get(key, default)
DictGet(dict, key, default) == IF key \in DOMAIN dict THEN dict[key] ELSE default

\* d[k] = v on a dict
DictPut(dict, key, v) ==
    [x \in (DOMAIN dict) \cup {key} |-> IF x = key THEN v ELSE dict[x]]

\* a learner that counts every group as one observation
learn_priors_count_one(priors, cat, data) ==
    IF data = <<>>
    THEN DictPut(priors, cat, global_prior)
    ELSE LET sum_y == RSum(data)
             cat_alpha == RAdd(global_prior.alpha, sum_y)
             cat_beta == RAdd(global_prior.beta, RInt(1))
         IN  DictPut(priors, cat, GammaParams(cat_alpha, cat_beta))

\* a learner that starts alpha from zero instead of the global alpha
learn_priors_no_global_alpha(priors, cat, data) ==
    IF data = <<>>
    THEN DictPut(priors, cat, global_prior)
    ELSE LET n == Len(data)
             sum_y == RSum(data)
             cat_beta == RAdd(global_prior.beta, RInt(n))
         IN  DictPut(priors, cat, GammaParams(sum_y, cat_beta))

\* a learner that updates the prior already stored for the group
learn_priors_accumulating(priors, cat, data) ==
    LET base == DictGet(priors, cat, global_prior)
    IN  IF data = <<>>
        THEN DictPut(priors, cat, base)
        ELSE LET n == Len(data)
                 sum_y == RSum(data)
                 cat_alpha == RAdd(base.alpha, sum_y)
                 cat_beta == RAdd(base.beta, RInt(n))
             IN  DictPut(priors, cat, GammaParams(cat_alpha, cat_beta))

\* learn_priors for one (cat, data) entry of category_data
learn_priors(priors, cat, data) ==
    IF data = <<>>
    THEN DictPut(priors, cat, global_prior)
    ELSE LET n == Len(data)
             sum_y == RSum(data)
             cat_alpha == RAdd(global_prior.alpha, sum_y)
             cat_beta == RAdd(global_prior.beta, RInt(n))
         IN  DictPut(priors, cat, GammaParams(cat_alpha, cat_beta))

\* category=None
None == "<None>"

\* {i: 1.0 for i in range(7)}
FlatProfile == [i \in 0..6 |-> RInt(1)]

\* a selection that falls back on any stored prior before the global one
select_prior_any(priors, category) ==
    IF category # None /\ category # "" /\ category \in DOMAIN priors
    THEN [prior |-> priors[category], prior_source |-> "Category"]
    ELSE IF DOMAIN priors # {}
    THEN [prior |-> priors[CHOOSE c \in DOMAIN priors : TRUE], prior_source |-> "Category"]
    ELSE [prior |-> global_prior, prior_source |-> "Global"]

\* predict_item step 1: the prior of the category if one is stored, else global
select_prior(priors, category) ==
    IF category # None /\ category # "" /\ category \in DOMAIN priors
    THEN [prior |-> priors[category], prior_source |-> "Category"]
    ELSE [prior |-> global_prior, prior_source |-> "Global"]

\* seasonal_multipliers or {i: 1.0 for i in range(7)}  (None and {} are falsy)
effective_multipliers(seasonal_multipliers) ==
    IF DOMAIN seasonal_multipliers = {} THEN FlatProfile ELSE seasonal_multipliers

\* a de-seasonalization that discards a point only when its multiplier is
\* zero or less
RECURSIVE deseasonalized_history_zero_only(_, _, _)
deseasonalized_history_zero_only(item_history, history_dows, multipliers) ==
    IF item_history = <<>> \/ history_dows = <<>> THEN <<>>
    ELSE LET m == DictGet(multipliers, Head(history_dows), RInt(1))
             rest == deseasonalized_history_zero_only(Tail(item_history),
                                                      Tail(history_dows), multipliers)
         IN  IF RLe(m, RInt(0)) THEN rest
             ELSE <<RDiv(Head(item_history), m)>> \o rest

\* predict_item step 2: zip(item_history, history_dows), skipping m < 0.01
RECURSIVE deseasonalized_history(_, _, _)
deseasonalized_history(item_history, history_dows, multipliers) ==
    IF item_history = <<>> \/ history_dows = <<>> THEN <<>>
    ELSE LET m == DictGet(multipliers, Head(history_dows), RInt(1))
             rest == deseasonalized_history(Tail(item_history),
                                            Tail(history_dows), multipliers)
         IN  IF RLt(m, R(1, 100)) THEN rest
             ELSE <<RDiv(Head(item_history), m)>> \o rest

\* a posterior that does not count the observations in post_beta
posterior_no_count(prior, deseason) ==
    LET n == Len(deseason)
        sum_y_prime == RSum(deseason)
        post_alpha == RAdd(prior.alpha, sum_y_prime)
        post_beta == prior.beta
    IN  [n |-> n, post_alpha |-> post_alpha, post_beta |-> post_beta,
         nb_n |-> post_alpha,
         nb_p |-> RDiv(post_beta, RAdd(post_beta, RInt(1)))]

\* a posterior whose success probability is 1 / (post_beta + 1)
posterior_wrong_p(prior, deseason) ==
    LET n == Len(deseason)
        sum_y_prime == RSum(deseason)
        post_alpha == RAdd(prior.alpha, sum_y_prime)
        post_beta == RAdd(prior.beta, RInt(n))
    IN  [n |-> n, post_alpha |-> post_alpha, post_beta |-> post_beta,
         nb_n |-> post_alpha,
         nb_p |-> RDiv(RInt(1), RAdd(post_beta, RInt(1)))]

\* predict_item step 3: the posterior and the base Negative Binomial
posterior(prior, deseason) ==
    LET n == Len(deseason)
        sum_y_prime == RSum(deseason)
        post_alpha == RAdd(prior.alpha, sum_y_prime)
        post_beta == RAdd(prior.beta, RInt(n))
    IN  [n |-> n, post_alpha |-> post_alpha, post_beta |-> post_beta,
         nb_n |-> post_alpha,
         nb_p |-> RDiv(post_beta, RAdd(post_beta, RInt(1)))]

\* scipy's argument check of nbinom.rvs(n, p): n > 0 and 0 < p <= 1
nbinom_argcheck(nb_n, nb_p) ==
    /\ RLt(RInt(0), nb_n)
    /\ RLt(RInt(0), nb_p)
    /\ RLe(nb_p, RInt(1))

\* mean of the Negative Binomial (n, p): n (1 - p) / p
nbinom_mean(nb_n, nb_p) == RDiv(RMul(nb_n, RSub(RInt(1), nb_p)), nb_p)

\* What nbinom.rvs(nb_n, nb_p, size = n_samples) can return.  Every natural
\* number has positive probability, so every multiset of NSamples naturals is
\* a possible draw; a draw is given by the count of each value 0..MaxSample.
RECURSIVE CountSum(_, _)
CountSum(c, v) == IF v < 0 THEN 0 ELSE c[v] + CountSum(c, v - 1)

Draws ==
    {c \in [0..MaxSample -> 0..NSamples] : CountSum(c, MaxSample) = NSamples}

RECURSIVE Repeat(_, _)
Repeat(v, k) == IF k = 0 THEN <<>> ELSE <<v>> \o Repeat(v, k - 1)

\* the drawn array in ascending order (the sort inside np.percentile)
RECURSIVE SortedFrom(_, _)
SortedFrom(c, v) ==
    IF v > MaxSample THEN <<>> ELSE Repeat(v, c[v]) \o SortedFrom(c, v + 1)

Reverse(s) == [i \in 1..Len(s) |-> s[Len(s) + 1 - i]]

\* base_samples * m, in ascending order
scaled_samples(c, m) ==
    LET base == SortedFrom(c, 0)
        sc == [i \in 1..Len(base) |-> RMul(RInt(base[i]), m)]
    IN  IF RLt(m, RInt(0)) THEN Reverse(sc) ELSE sc

\* np.mean
np_mean(a) == RDiv(RSum(a), RInt(Len(a)))

\* a percentile taken from the top of the array instead of the bottom
np_percentile_from_top(a, q) ==
    LET h == (100 - q) * (Len(a) - 1)
        lo == h \div 100
        fr == R(h % 100, 100)
    IN  IF lo + 2 > Len(a) THEN a[lo + 1]
        ELSE RAdd(a[lo + 1], RMul(fr, RSub(a[lo + 2], a[lo + 1])))

\* np.percentile(a, q) on the ascending array a: linear interpolation at the
\* virtual index q/100 * (N - 1)
np_percentile(a, q) ==
    LET h == q * (Len(a) - 1)
        lo == h \div 100
        fr == R(h % 100, 100)
    IN  IF lo + 2 > Len(a) THEN a[lo + 1]
        ELSE RAdd(a[lo + 1], RMul(fr, RSub(a[lo + 2], a[lo + 1])))

\* the expectation of np.mean(nbinom.rvs(nb_n, nb_p, size) * m), the value the
\* sample mean of a forecast estimates
expected_mean(post, m) == RMul(nbinom_mean(post.nb_n, post.nb_p), m)

\* an explanation that calls five observations a cold start
logic_trigger_inclusive(m, n, prior_source) ==
    LET season == IF RLt(R(1, 10), RAbs(RSub(m, RInt(1))))
                  THEN <<[kind |-> "Seasonality", m2 |-> Round2(m), source |-> ""]>>
                  ELSE <<>>
        cold == IF n <= 5
                THEN <<[kind |-> "Cold Start", m2 |-> 0, source |-> prior_source]>>
                ELSE <<>>
        explanation == season \o cold
    IN  IF explanation = <<>>
        THEN <<[kind |-> "Normal", m2 |-> 0, source |-> ""]>>
        ELSE explanation

\* predict_item lines 154-161: the explanation list, "Normal" when empty
logic_trigger(m, n, prior_source) ==
    LET season == IF RLt(R(1, 10), RAbs(RSub(m, RInt(1))))
                  THEN <<[kind |-> "Seasonality", m2 |-> Round2(m), source |-> ""]>>
                  ELSE <<>>
        cold == IF n < 5
                THEN <<[kind |-> "Cold Start", m2 |-> 0, source |-> prior_source]>>
                ELSE <<>>
        explanation == season \o cold
    IN  IF explanation = <<>>
        THEN <<[kind |-> "Normal", m2 |-> 0, source |-> ""]>>
        ELSE explanation

\* predict_item step 4, the body of the loop for one future date
forecast_one(date_str, dow, multipliers, post, prior_source, c) ==
    LET m == DictGet(multipliers, dow, RInt(1))
        scaled == scaled_samples(c, m)
    IN  [date |-> date_str,
         mean |-> np_mean(scaled),
         p10 |-> np_percentile(scaled, 10),
         p50 |-> np_percentile(scaled, 50),
         p90 |-> np_percentile(scaled, 90),
         p99 |-> np_percentile(scaled, 99),
         confidence_n |-> post.n,
         logic_trigger |-> logic_trigger(m, post.n, prior_source)]

\* BayesianForecaster.predict_item(**a).  draws[i] is what the i-th call of
\* nbinom.rvs returns.  confidence_score = sigmoid((n - 5) / 5) is carried as
\* its argument n.  The result records the locals the claims speak about.
predict_item(priors, a, draws) ==
    LET sel == select_prior(priors, a.category)
        multipliers == effective_multipliers(a.seasonal_multipliers)
        deseason == deseasonalized_history(a.item_history, a.history_dows, multipliers)
        post == posterior(sel.prior, deseason)
        k == Min2(Len(a.future_dates), Len(a.future_dows))
        raised == k > 0 /\ ~nbinom_argcheck(post.nb_n, post.nb_p)
    IN  [raised |-> raised,
         forecasts |-> IF raised THEN <<>>
                       ELSE [i \in 1..k |->
                               forecast_one(a.future_dates[i], a.future_dows[i],
                                            multipliers, post, sel.prior_source,
                                            draws[i])],
         prior |-> sel.prior,
         prior_source |-> sel.prior_source,
         multipliers |-> multipliers,
         post |-> post]
----------------------------------------------------------------------------
(* A forecaster on its own: construct it, learn priors, call predict_item *)

Pending == [status |-> "pending"]

\* history points (quantity, day of week) the direct calls are made with
HistPoints == {<<10, 0>>, <<4, 5>>}

RECURSIVE SeqsUpTo(_, _)
SeqsUpTo(S, n) ==
    IF n = 0 THEN {<<>>}
    ELSE LET shorter == SeqsUpTo(S, n - 1)
         IN  shorter \cup {Append(q, x) : q \in {t \in shorter : Len(t) = n - 1}, x \in S}

QtyOf(points) == [i \in 1..Len(points) |-> RInt(points[i][1])]
DowOf(points) == [i \in 1..Len(points) |-> points[i][2]]

\* Mon 2.0x, Tue 0.5x, Sat closed; the other days have no entry
PartialProfile == (0 :> RInt(2)) @@ (1 :> R(1, 2)) @@ (5 :> RInt(0))

\* the weekdays of the future dates of a call
FutureDows == {<<>>, <<1>>, <<0, 5>>}

\* pooled observations learn_priors is called with
PriorData == {<<>>, <<RInt(6), RInt(6)>>}

\* (item_history, history_dows) pairs: every list of history points, and two
\* calls whose history_dows is shorter than item_history
Histories ==
    {<<QtyOf(h), DowOf(h)>> : h \in SeqsUpTo(HistPoints, MaxHist)}
        \cup {<<QtyOf(<<h>>), <<>>>> : h \in HistPoints}

PredictArgs ==
    {[op |-> "predict_item",
      item_history |-> h[1],
      history_dows |-> h[2],
      future_dates |-> [i \in 1..Len(f) |-> Today + i],
      future_dows |-> f,
      category |-> c,
      seasonal_multipliers |-> sm] :
        h \in Histories,
        f \in FutureDows,
        c \in {None, "Mains", "Sides"},
        sm \in {EmptyDict, PartialProfile}}

InitPredict ==
    /\ txns = {}
    /\ snapshots = {}
    /\ forecasts = <<>>
    /\ category_priors = EmptyDict
    /\ args \in PredictArgs
    /\ ret = Pending
    /\ rng = Unseeded
    /\ pc = NoThreads

\* forecaster.learn_priors({cat: data})
LearnPriors(cat, data) ==
    /\ ret = Pending
    /\ category_priors' = learn_priors(category_priors, cat, data)
    /\ UNCHANGED <<rng, pc, txns, snapshots, forecasts, args, ret>>

\* forecaster.predict_item(**args)
PredictItem ==
    /\ args.op = "predict_item"
    /\ ret = Pending
    /\ \E draws \in [1..Min2(Len(args.future_dates), Len(args.future_dows)) -> Draws] :
         LET r == predict_item(category_priors, args, draws)
         IN  ret' = [status |-> IF r.raised THEN "ValueError" ELSE "ok",
                     value |-> r.forecasts,
                     locals |-> r]
    /\ UNCHANGED <<rng, pc, txns, snapshots, forecasts, category_priors, args>>

NextPredict ==
    \/ \E data \in PriorData : LearnPriors("Mains", data)
    \/ PredictItem

SpecPredict == InitPredict /\ [][NextPredict]_vars
----------------------------------------------------------------------------
(* Claims about predict_item *)

Returned == ret # Pending /\ ret.status = "ok"

\* C1: every ForecastDistribution returned by predict_item has
\* 0 <= p10 <= p50 <= p90 <= p99 and mean >= 0, whatever the history, the
\* selected prior, the future date and the Monte Carlo draw.
C1_QuantileOrdering ==
    (args.op = "predict_item" /\ Returned) =>
        \A i \in 1..Len(ret.value) :
            LET f == ret.value[i]
            IN  /\ RLe(RInt(0), f.p10)
                /\ RLe(f.p10, f.p50)
                /\ RLe(f.p50, f.p90)
                /\ RLe(f.p90, f.p99)
                /\ RLe(RInt(0), f.mean)

\* a forecast from a non-empty history under a learned category prior whose
\* quantiles are strictly increasing
C1_Witness ==
    /\ args.op = "predict_item" /\ Returned
    /\ ret.locals.post.n > 0
    /\ ret.locals.prior_source = "Category"
    /\ \E i \in 1..Len(ret.value) :
         LET f == ret.value[i]
         IN  /\ RLt(RInt(0), f.p10) /\ RLt(f.p10, f.p50)
             /\ RLt(f.p50, f.p90) /\ RLt(f.p90, f.p99)

\* C5: with an empty history predict_item does not raise, returns one
\* distribution per requested future date, in order, and each is drawn from a
\* distribution whose mean is the selected prior's alpha/beta times that date's
\* multiplier: 4.0 under the global prior (2.0, 0.5) on a multiplier-1.0 day.
C5_ColdStart ==
    (args.op = "predict_item" /\ ret # Pending /\ args.item_history = <<>>) =>
        /\ ret.status = "ok"
        /\ Len(ret.value) = Len(args.future_dates)
        /\ \A i \in 1..Len(ret.value) :
             LET m == DictGet(ret.locals.multipliers, args.future_dows[i], RInt(1))
                 sel == select_prior(category_priors, args.category)
             IN  /\ ret.value[i].date = args.future_dates[i]
                 /\ expected_mean(ret.locals.post, m) = RMul(GammaMean(sel.prior), m)
                 /\ (sel.prior_source = "Global" /\ m = RInt(1)) =>
                        expected_mean(ret.locals.post, m) = RInt(4)

\* a cold-start call for two dates under a learned category prior, one of them
\* on a day whose multiplier is not 1.0
C5_Witness ==
    /\ args.op = "predict_item" /\ Returned
    /\ args.item_history = <<>>
    /\ Len(ret.value) = 2
    /\ ret.locals.prior_source = "Category"
    /\ ret.locals.prior # global_prior
    /\ expected_mean(ret.locals.post, RInt(2)) = RDiv(RInt(56), RInt(5))
----------------------------------------------------------------------------
(* A forecaster fed one more identical observation before each forecast *)

\* the value every observation of such a history has
ObsValues == {0, 4, 10}

InitConverge ==
    /\ txns = {}
    /\ snapshots = {}
    /\ forecasts = <<>>
    /\ category_priors = EmptyDict
    /\ \E d \in {0, 3} :
         args = [op |-> "predict_item",
                 item_history |-> <<>>,
                 history_dows |-> <<>>,
                 future_dates |-> <<Today + 1>>,
                 future_dows |-> <<d>>,
                 category |-> None,
                 seasonal_multipliers |-> EmptyDict]
    /\ ret = Pending
    /\ rng = Unseeded
    /\ pc = NoThreads

\* predict_item again, with one more observation v on the forecast's weekday
ObserveAndPredict(v) ==
    /\ args.op = "predict_item"
    /\ ret # Pending
    /\ Len(args.item_history) < MaxObs
    /\ \A i \in 1..Len(args.item_history) : args.item_history[i] = RInt(v)
    /\ args' = [args EXCEPT !.item_history = Append(@, RInt(v)),
                            !.history_dows = Append(@, args.future_dows[1])]
    /\ \E draws \in [1..1 -> Draws] :
         LET r == predict_item(category_priors, args', draws)
         IN  ret' = [status |-> IF r.raised THEN "ValueError" ELSE "ok",
                     value |-> r.forecasts,
                     locals |-> r]
    /\ UNCHANGED <<rng, pc, txns, snapshots, forecasts, category_priors>>

NextConverge ==
    \/ PredictItem
    \/ \E v \in ObsValues : ObserveAndPredict(v)

SpecConverge == InitConverge /\ [][NextConverge]_vars

\* C9: with a flat profile and a history of k observations all equal to v on
\* the forecast's weekday, the mean of the forecast distribution is
\* (alpha + k v) / (beta + k); adding one more such observation moves it
\* strictly closer to v without reaching v when the prior mean differs from v
\* (and leaves it at v otherwise); for k = 10, v = 10 it is within 0.01 of 9.71.
C9_PosteriorConvergence ==
    [][(Returned /\ Returned' /\
        Len(args'.item_history) = Len(args.item_history) + 1) =>
          LET k == Len(args'.item_history)
              v == args'.item_history[1]
              old == expected_mean(ret.locals.post, RInt(1))
              new == expected_mean(ret'.locals.post, RInt(1))
          IN  /\ new = RDiv(RAdd(global_prior.alpha, RMul(RInt(k), v)),
                            RAdd(global_prior.beta, RInt(k)))
              /\ IF GammaMean(global_prior) # v
                 THEN /\ RLt(RAbs(RSub(new, v)), RAbs(RSub(old, v)))
                      /\ new # v
                 ELSE new = v
              /\ (k = 10 /\ v = RInt(10)) =>
                    RLt(RAbs(RSub(new, R(971, 100))), R(1, 100))]_vars

\* the forecast after the tenth observation of 10 units
C9_Witness ==
    /\ Returned
    /\ Len(args.item_history) = 10
    /\ args.item_history[10] = RInt(10)
    /\ ret.locals.post.post_alpha = RInt(102)
    /\ ret.locals.post.post_beta = R(21, 2)
----------------------------------------------------------------------------
(* forecast.py: ForecastService._calculate_seasonality *)

\* sum of the quantity column over the rows with index in S
RECURSIVE QtySum(_, _)
QtySum(df, S) ==
    IF S = {} THEN RInt(0)
    ELSE LET d == CHOOSE x \in S : TRUE
         IN  RAdd(df[d], QtySum(df, S \ {d}))

\* df[df["dow"] == i]
RowsOfDow(df, i) == {d \in DOMAIN df : weekday(d) = i}

\* a clip that forgets the upper cap
clip_no_cap(m) == RMax(R(3, 10), m)

\* max(0.3, min(m, 3.0))
clip(m) == RMax(R(3, 10), RMin(m, RInt(3)))

\* a shrinkage that scales the raw multiplier without the share of 1.0
shrink_no_anchor(m, day_count) ==
    IF day_count < 4 THEN RMul(R(7, 10), m)
    ELSE IF day_count < 8 THEN RMul(R(85, 100), m)
    ELSE m

\* a shrinkage whose thresholds 4 and 8 are inclusive
shrink_inclusive(m, day_count) ==
    IF day_count <= 4 THEN RAdd(RMul(R(7, 10), m), R(3, 10))
    ELSE IF day_count <= 8 THEN RAdd(RMul(R(85, 100), m), R(15, 100))
    ELSE m

\* shrinkage toward 1.0 by the number of observations of the weekday
shrink(m, day_count) ==
    IF day_count < 4 THEN RAdd(RMul(R(7, 10), m), R(3, 10))
    ELSE IF day_count < 8 THEN RAdd(RMul(R(85, 100), m), R(15, 100))
    ELSE m

\* the body of the loop over range(7); quantities are never NaN
multiplier(df, i, global_mean) ==
    LET rows == RowsOfDow(df, i)
        dow_mean == IF rows = {} THEN global_mean
                    ELSE RDiv(QtySum(df, rows), RInt(Cardinality(rows)))
        m == RDiv(dow_mean, global_mean)
    IN  clip(shrink(m, Cardinality(rows)))

\* sum(multipliers.values())
ProfileSum(profile) == RSum([i \in 1..7 |-> profile[i - 1]])

\* an estimator that rescales the clipped multipliers to mean 1.0
calculate_seasonality_normalized(df) ==
    IF DOMAIN df = {} THEN FlatProfile
    ELSE LET global_mean == RDiv(QtySum(df, DOMAIN df),
                                 RInt(Cardinality(DOMAIN df)))
             raw == [i \in 0..6 |-> multiplier(df, i, global_mean)]
         IN  IF global_mean = RInt(0) THEN FlatProfile
             ELSE [i \in 0..6 |-> RDiv(RMul(raw[i], RInt(7)), ProfileSum(raw))]

\* ForecastService._calculate_seasonality(df); df maps each date of the index
\* to its quantity
calculate_seasonality(df) ==
    IF DOMAIN df = {} THEN FlatProfile
    ELSE LET global_mean == RDiv(QtySum(df, DOMAIN df),
                                 RInt(Cardinality(DOMAIN df)))
         IN  IF global_mean = RInt(0) THEN FlatProfile
             ELSE [i \in 0..6 |-> multiplier(df, i, global_mean)]

\* Reference series the estimator is run on: Mondays of the first c0 weeks at
\* q0 a day and Saturdays of the first c5 weeks at q5 a day, the first Monday
\* replaced by a spike of 1000 when spike holds ...
WeekCounts == {0, 1, 3, 4, 7, 8}
RefQtys == {0, 10, 50}

Series(c0, q0, c5, q5, spike) ==
    [d \in {7 * w : w \in 0..(c0 - 1)} \cup {7 * w + 5 : w \in 0..(c5 - 1)} |->
        IF weekday(d) = 0
        THEN (IF spike /\ d = 0 THEN RInt(1000) ELSE RInt(q0))
        ELSE RInt(q5)]

\* ... and the two series of test_seasonality_capping_and_normalization
TwoDaySeries == (2 :> RInt(10)) @@ (3 :> RInt(10))
SpikeWeekSeries == [d \in 0..6 |-> IF d = 0 THEN RInt(1000) ELSE RInt(10)]

ReferenceSeries ==
    {Series(c0, q0, c5, q5, spike) :
        c0 \in WeekCounts, q0 \in RefQtys, c5 \in WeekCounts, q5 \in RefQtys,
        spike \in BOOLEAN}
        \cup {TwoDaySeries, SpikeWeekSeries}

InitSeasonality ==
    /\ txns = {}
    /\ snapshots = {}
    /\ forecasts = <<>>
    /\ category_priors = EmptyDict
    /\ \E df \in ReferenceSeries : args = [op |-> "_calculate_seasonality", df |-> df]
    /\ ret = Pending
    /\ rng = Unseeded
    /\ pc = NoThreads

\* service._calculate_seasonality(df)
CalculateSeasonality ==
    /\ args.op = "_calculate_seasonality"
    /\ ret = Pending
    /\ ret' = [status |-> "ok", value |-> calculate_seasonality(args.df)]
    /\ UNCHANGED <<rng, pc, txns, snapshots, forecasts, category_priors, args>>

NextSeasonality == CalculateSeasonality

SpecSeasonality == InitSeasonality /\ [][NextSeasonality]_vars

\* C4: whatever the reference series (empty, one day, sparse, with a spike),
\* _calculate_seasonality returns 7 multipliers, each in [0.3, 3.0].
C4_SeasonalityBounds ==
    (args.op = "_calculate_seasonality" /\ Returned) =>
        /\ DOMAIN ret.value = 0..6
        /\ \A i \in 0..6 :
             /\ RLe(R(3, 10), ret.value[i])
             /\ RLe(ret.value[i], RInt(3))

\* a profile in which a raw multiplier above 3.0 was capped and one below 0.3
\* was raised
C4_Witness ==
    /\ args.op = "_calculate_seasonality" /\ Returned
    /\ RowsOfDow(args.df, 0) # {}
    /\ LET gm == RDiv(QtySum(args.df, DOMAIN args.df), RInt(Cardinality(DOMAIN args.df)))
       IN  /\ gm # RInt(0)
           /\ RLt(RInt(3), shrink(RDiv(RDiv(QtySum(args.df, RowsOfDow(args.df, 0)),
                                            RInt(Cardinality(RowsOfDow(args.df, 0)))), gm),
                                  Cardinality(RowsOfDow(args.df, 0))))
    /\ ret.value[0] = RInt(3)
    /\ ret.value[5] = R(3, 10)
----------------------------------------------------------------------------
(* core/business_day.py: hours open on the 4 AM business-day clock *)

BUSINESS_DAY_START_HOUR == 4

\* datetime.time(hour, minute); seconds play no part in the computation
time(h, m) == [hour |-> h, minute |-> m]

\* None where a time is expected
NoTime == [none |-> TRUE]

time_to_offset_minutes(t) ==
    LET minutes == t.hour * 60 + t.minute
        shifted == IF t.hour < BUSINESS_DAY_START_HOUR
                   THEN minutes + 24 * 60 ELSE minutes
    IN  shifted - BUSINESS_DAY_START_HOUR * 60

\* a computation that keeps the default but does not clamp
calculate_hours_open_unclamped(first_order, last_order) ==
    IF first_order = NoTime \/ last_order = NoTime THEN RInt(12)
    ELSE R(time_to_offset_minutes(last_order) - time_to_offset_minutes(first_order), 60)

calculate_hours_open(first_order, last_order) ==
    IF first_order = NoTime \/ last_order = NoTime THEN RInt(12)
    ELSE LET first_mins == time_to_offset_minutes(first_order)
             last_mins == time_to_offset_minutes(last_order)
             hours == R(last_mins - first_mins, 60)
         IN  RMax(RInt(1), RMin(hours, RInt(24)))

----------------------------------------------------------------------------
(* features.py: FeatureEngineeringService.create_training_dataset *)

\* MenuItem rows of the restaurant (one restaurant is modelled)
Menu ==
    {[id |-> "m1", name |-> "Burger", category |-> "Mains"],
     [id |-> "m2", name |-> "Pasta", category |-> "Mains"],
     [id |-> "m3", name |-> "Steak", category |-> "Mains"],
     [id |-> "m4", name |-> "Salad", category |-> "Mains"],
     [id |-> "m5", name |-> "Soup", category |-> "Mains"],
     [id |-> "m6", name |-> "Cola", category |-> "Drinks"]}

\* NaN in a float column
NaN == <<0, 0>>

\* func.sum(TransactionItem.quantity) over a set of rows
RECURSIVE SumQty(_)
SumQty(rows) ==
    IF rows = {} THEN 0
    ELSE LET t == CHOOSE x \in rows : TRUE
         IN  t.qty + SumQty(rows \ {t})

\* the rows of a column ordered by value, for Series.median
RECURSIVE SortedQty(_, _)
SortedQty(df, H) ==
    IF H = {} THEN <<>>
    ELSE LET d == CHOOSE x \in H :
                    \A y \in H : RLe(df[x].quantity, df[y].quantity)
         IN  <<df[d].quantity>> \o SortedQty(df, H \ {d})

\* Series.median
median(sorted) ==
    LET n == Len(sorted)
    IN  IF n % 2 = 1 THEN sorted[(n + 1) \div 2]
        ELSE RDiv(RAdd(sorted[n \div 2], sorted[n \div 2 + 1]), RInt(2))

\* a mask that looks back 4 weeks only
historical_mask_4_weeks(df, idx) ==
    {d \in DOMAIN df :
        /\ d >= idx - 28
        /\ d < idx - 1
        /\ weekday(d) = weekday(idx)
        /\ ~df[d].stockout}

\* a mask that takes the stockout days as well
historical_mask_any(df, idx) ==
    {d \in DOMAIN df :
        /\ d >= idx - 56
        /\ d < idx - 1
        /\ weekday(d) = weekday(idx)}

\* historical_mask: same weekday, not a stockout, from idx - 56 days up to
\* (not including) idx - 1 day
historical_mask(df, idx) ==
    {d \in DOMAIN df :
        /\ d >= idx - 56
        /\ d < idx - 1
        /\ weekday(d) = weekday(idx)
        /\ ~df[d].stockout}

\* an imputation that always uses the 1.3x fallback
adjusted_quantity_fallback_only(df, idx) ==
    IF df[idx].stockout THEN RMul(df[idx].quantity, R(13, 10)) ELSE df[idx].quantity

\* an imputation that takes the median without the max with the observed value
adjusted_quantity_no_max(df, idx) ==
    IF ~df[idx].stockout THEN df[idx].quantity
    ELSE LET H == historical_mask(df, idx)
         IN  IF Cardinality(H) >= 2 THEN median(SortedQty(df, H))
             ELSE RMul(df[idx].quantity, R(13, 10))

\* lines 184-214: adjusted_quantity of the row idx
adjusted_quantity(df, idx) ==
    IF ~df[idx].stockout THEN df[idx].quantity
    ELSE LET H == historical_mask(df, idx)
         IN  IF Cardinality(H) >= 2
             THEN RMax(df[idx].quantity, median(SortedQty(df, H)))
             ELSE RMul(df[idx].quantity, R(13, 10))

\* df[target].shift(k) at row d
shift(adj, d, k) == IF d - k \in DOMAIN adj THEN adj[d - k] ELSE NaN

\* df[target].shift(1).rolling(window).mean() at row d
RECURSIVE SumAdj(_, _, _)
SumAdj(adj, lo, hi) ==
    IF lo > hi THEN RInt(0)
    ELSE IF lo = hi THEN adj[lo]
    ELSE LET mid == (lo + hi) \div 2
         IN  RAdd(SumAdj(adj, lo, mid), SumAdj(adj, mid + 1, hi))

rolling_mean(adj, d, window) ==
    IF d - window \in DOMAIN adj
    THEN RDiv(SumAdj(adj, d - window, d - 1), RInt(window))
    ELSE NaN

\* the rows of a series kept in index order
RowsInOrder(rows, lo, hi) ==
    LET D == {d \in DOMAIN rows : lo <= d /\ d <= hi}
    IN  [i \in 1..Cardinality(D) |->
           rows[CHOOSE d \in D : Cardinality({e \in D : e <= d}) = i]]

SetMin(S) == CHOOSE x \in S : \A y \in S : x <= y
SetMax(S) == CHOOSE x \in S : \A y \in S : x >= y

\* an empty DataFrame
EmptyFrame == [status |-> "ok", value |-> <<>>]

\* lines 113-118: the name of the item with this id, None if there is none
target_name_of(menu_item_id) ==
    LET item == {m \in Menu : m.id = menu_item_id}
    IN  IF menu_item_id # None /\ item # {}
        THEN (CHOOSE m \in item : TRUE).name ELSE None

\* lines 46-62, 119, 123: the joined rows the grouped query aggregates
query_results(tx, menu_item_id, days_history) ==
    {t \in tx : /\ t.date >= Today - days_history
                /\ target_name_of(menu_item_id) # None =>
                       t.item = target_name_of(menu_item_id)}

\* lines 65-86, 136-137: the dates flagged in InventorySnapshot that are merged
manual_stockout_dates(snaps, menu_item_id, days_history) ==
    IF target_name_of(menu_item_id) # None
    THEN {sn.date : sn \in {x \in snaps : /\ x.item_id = menu_item_id
                                          /\ x.date >= Today - days_history}}
    ELSE {}

\* clock order of two times
TimeLe(a, b) == a.hour * 60 + a.minute <= b.hour * 60 + b.minute

\* func.min(Transaction.first_order_time) and func.max(Transaction.last_order_time)
\* over the rows of a group: NULLs are skipped, NULL if there is no value
first_order(rows) ==
    LET known == {t.first_order : t \in rows} \ {NoTime}
    IN  IF known = {} THEN NoTime
        ELSE CHOOSE x \in known : \A y \in known : TimeLe(x, y)
last_order(rows) ==
    LET known == {t.last_order : t \in rows} \ {NoTime}
    IN  IF known = {} THEN NoTime
        ELSE CHOOSE x \in known : \A y \in known : TimeLe(y, x)

\* a reindex that fills the missing days with a quantity of 1
daily_frame_fill_one(tx, snaps, menu_item_id, days_history) ==
    LET results == query_results(tx, menu_item_id, days_history)
        manual == manual_stockout_dates(snaps, menu_item_id, days_history)
        dates == {t.date : t \in results}
        of(d) == {t \in results : t.date = d}
    IN  [d \in SetMin(dates)..SetMax(dates) |->
           IF d \in dates
           THEN [quantity |-> RInt(SumQty(of(d))),
                 stockout |-> (\E t \in of(d) : t.stockout) \/ d \in manual,
                 hours_open |-> calculate_hours_open(first_order(of(d)),
                                                     last_order(of(d)))]
           ELSE [quantity |-> RInt(1), stockout |-> FALSE, hours_open |-> RInt(12)]]

\* lines 129-169: the frame after the merge of manual stockouts and the
\* reindex over the full date range (results not empty, one item per date)
daily_frame(tx, snaps, menu_item_id, days_history) ==
    LET results == query_results(tx, menu_item_id, days_history)
        manual == manual_stockout_dates(snaps, menu_item_id, days_history)
        dates == {t.date : t \in results}
        of(d) == {t \in results : t.date = d}
    IN  [d \in SetMin(dates)..SetMax(dates) |->
           IF d \in dates
           THEN [quantity |-> RInt(SumQty(of(d))),
                 stockout |-> (\E t \in of(d) : t.stockout) \/ d \in manual,
                 hours_open |-> calculate_hours_open(first_order(of(d)),
                                                     last_order(of(d)))]
           ELSE [quantity |-> RInt(0), stockout |-> FALSE, hours_open |-> RInt(12)]]

\* lines 184-214: the adjusted_quantity column of the frame df
impute(df) == [d \in DOMAIN df |-> adjusted_quantity(df, d)]

\* lines 216-231: the frame with the lag, rolling mean and calendar columns
generate_features(df, adj) ==
    [d \in DOMAIN df |->
        [date |-> d,
         quantity |-> df[d].quantity,
         stockout |-> df[d].stockout,
         hours_open |-> df[d].hours_open,
         adjusted_quantity |-> adj[d],
         lag_1 |-> shift(adj, d, 1),
         lag_7 |-> shift(adj, d, 7),
         lag_28 |-> shift(adj, d, 28),
         roll_7_mean |-> rolling_mean(adj, d, 7),
         roll_28_mean |-> rolling_mean(adj, d, 28),
         dow |-> weekday(d),
         is_weekend |-> IF weekday(d) \in {5, 6} THEN 1 ELSE 0]]

\* a dropna on lag_1 only
dropna_lag_1_only(full) ==
    LET kept == {d \in DOMAIN full : full[d].lag_1 # NaN}
    IN  RowsInOrder([d \in kept |-> full[d]], SetMin(DOMAIN full), SetMax(DOMAIN full))

\* lines 233-235: dropna(subset=["lag_1", "lag_7", "roll_7_mean"]), as the
\* sequence of the rows kept, in index order
dropna(full) ==
    LET kept == {d \in DOMAIN full : /\ full[d].lag_1 # NaN
                                     /\ full[d].lag_7 # NaN
                                     /\ full[d].roll_7_mean # NaN}
    IN  RowsInOrder([d \in kept |-> full[d]], SetMin(DOMAIN full), SetMax(DOMAIN full))

\* lines 171-237 on the reindexed frame df; each column is computed once
feature_rows(df) ==
    CHOOSE rows \in
        {dropna(full) :
            full \in {generate_features(df, adj) : adj \in {impute(df)}}} : TRUE

\* FeatureEngineeringService.create_training_dataset(restaurant_id,
\* menu_item_id, days_history) on the tables tx and snaps.  The result is the
\* DataFrame as the sequence of its rows in index order, or the exception of
\* reindex on duplicate dates.  is_promo and month are left out.
create_training_dataset(tx, snaps, menu_item_id, days_history) ==
    LET results == query_results(tx, menu_item_id, days_history)
        groups == {<<t.date, t.item>> : t \in results}
        dates == {t.date : t \in results}
    IN  IF menu_item_id # None /\ target_name_of(menu_item_id) = None
        THEN EmptyFrame
        ELSE IF results = {} THEN EmptyFrame
        ELSE IF Cardinality(groups) # Cardinality(dates)
        THEN [status |-> "ValueError", value |-> <<>>]
        ELSE [status |-> "ok",
              value |-> CHOOSE rows \in
                          {feature_rows(df) :
                              df \in {daily_frame(tx, snaps, menu_item_id,
                                                  days_history)}} : TRUE]

----------------------------------------------------------------------------
(* The feature builder on its own, over a table of one item's weekly sales *)

\* a day's sale of the item: none, or (quantity, stockout_occurred)
DayOptions ==
    {<<FALSE, 0, FALSE>>} \cup {<<TRUE, q, st>> : q \in {2, 10}, st \in BOOLEAN}
PlainOptions == {<<FALSE, 0, FALSE>>, <<TRUE, 10, FALSE>>}

\* days before today on which Burger may have sold, one week apart
WeeklyOffsets == {1, 8, 15}

\* first and last order time of the transaction of the day o days before
\* today: 11:00-22:00 yesterday, unknown a week before, 20:00-02:00 two weeks
\* before, 12:00-12:30 earlier
FirstOrderTime(o) ==
    IF o = 1 THEN time(11, 0) ELSE IF o = 8 THEN NoTime
    ELSE IF o = 15 THEN time(20, 0) ELSE time(12, 0)
LastOrderTime(o) ==
    IF o = 1 THEN time(22, 0) ELSE IF o = 8 THEN NoTime
    ELSE IF o = 15 THEN time(2, 0) ELSE time(12, 30)

SaleRow(o, item, opt) ==
    [id |-> <<item, o>>, date |-> Today - o, item |-> item,
     qty |-> opt[2], stockout |-> opt[3],
     first_order |-> FirstOrderTime(o), last_order |-> LastOrderTime(o)]

FeatureTables ==
    {{SaleRow(o, "Burger", f[o]) : o \in {x \in WeeklyOffsets : f[x][1]}}
        \cup (IF old[1] THEN {SaleRow(22, "Burger", old)} ELSE {})
        \cup (IF other[1] THEN {SaleRow(8, "Pasta", other)} ELSE {}) :
            f \in [WeeklyOffsets -> DayOptions],
            old \in PlainOptions, other \in PlainOptions}

FeatureArgs ==
    {[op |-> "create_training_dataset", menu_item_id |-> c[1], days_history |-> c[2]] :
        c \in {<<"m1", 365>>, <<None, 60>>, <<"m99", 365>>, <<"m1", 10>>}}

InitFeatures ==
    /\ txns \in FeatureTables
    /\ snapshots \in {{}, {[item_id |-> "m1", date |-> Today - 8]}}
    /\ forecasts = <<>>
    /\ category_priors = EmptyDict
    /\ args \in FeatureArgs
    /\ ret = Pending
    /\ rng = Unseeded
    /\ pc = NoThreads

\* a call that writes the imputed flag of the merged manual stockouts back to
\* the stored transactions
CreateTrainingDataset_writes_back ==
    /\ args.op = "create_training_dataset"
    /\ ret = Pending
    /\ ret' = create_training_dataset(txns, snapshots, args.menu_item_id,
                                      args.days_history)
    /\ txns' = {[t EXCEPT !.stockout =
                    t.stockout \/ t.date \in manual_stockout_dates(
                        snapshots, args.menu_item_id, args.days_history)] : t \in txns}
    /\ UNCHANGED <<rng, pc, snapshots, forecasts, category_priors, args>>

\* feature_service.create_training_dataset(**args)
CreateTrainingDataset ==
    /\ args.op = "create_training_dataset"
    /\ ret = Pending
    /\ ret' = create_training_dataset(txns, snapshots, args.menu_item_id,
                                      args.days_history)
    /\ UNCHANGED <<rng, pc, txns, snapshots, forecasts, category_priors, args>>

\* the same call made again on the same service, after the first returned
CreateTrainingDatasetAgain ==
    /\ args.op = "create_training_dataset"
    /\ ret # Pending
    /\ ret' = create_training_dataset(txns, snapshots, args.menu_item_id,
                                      args.days_history)
    /\ UNCHANGED <<rng, pc, txns, snapshots, forecasts, category_priors, args>>

NextFeatures == CreateTrainingDataset \/ CreateTrainingDatasetAgain

SpecFeatures == InitFeatures /\ [][NextFeatures]_vars

\* C2: in every row create_training_dataset returns, adjusted_quantity >=
\* quantity when stockout is true and adjusted_quantity = quantity when it is
\* false.
C2_UnconstrainingMonotone ==
    (args.op = "create_training_dataset" /\ Returned) =>
        \A i \in 1..Len(ret.value) :
            LET r == ret.value[i]
            IN  IF r.stockout THEN RLe(r.quantity, r.adjusted_quantity)
                ELSE r.adjusted_quantity = r.quantity

\* a result with a stockout row raised to the median of comparable days, a
\* stockout row kept at its own larger quantity and a row without stockout
C2_Witness ==
    /\ args.op = "create_training_dataset" /\ Returned
    /\ \E i, j, k \in 1..Len(ret.value) :
         /\ ret.value[i].stockout
         /\ RLt(ret.value[i].quantity, ret.value[i].adjusted_quantity)
         /\ ret.value[i].adjusted_quantity = RInt(10)
         /\ ret.value[j].stockout
         /\ ret.value[j].quantity = RInt(10)
         /\ ret.value[j].adjusted_quantity = RInt(10)
         /\ ~ret.value[k].stockout
         /\ ret.value[k].quantity = RInt(10)

\* the frame the returned rows were computed from
FeatureFrame == daily_frame(txns, snapshots, args.menu_item_id, args.days_history)

\* the days of the frame other than idx that share its weekday and are not
\* stockout days
ComparableDays(df, idx) ==
    {d \in DOMAIN df : d # idx /\ weekday(d) = weekday(idx) /\ ~df[d].stockout}

\* C3 as stated: the single stockout day of a history, with raw quantity 2 and
\* same-weekday non-stockout days averaging 10 around it, gets
\* adjusted_quantity >= 10.
C3_AsStated ==
    (args.op = "create_training_dataset" /\ Returned) =>
        \A i \in 1..Len(ret.value) :
            LET r == ret.value[i]
                df == FeatureFrame
                H == ComparableDays(df, r.date)
            IN  ( /\ r.stockout
                  /\ r.quantity = RInt(2)
                  /\ \A d \in DOMAIN df : df[d].stockout => d = r.date
                  /\ H # {}
                  /\ QtySum([d \in H |-> df[d].quantity], H)
                        = RInt(10 * Cardinality(H)) )
                => RLe(RInt(10), r.adjusted_quantity)

\* C3 (amended): a stockout day with raw quantity 2 that has, in the 8 weeks
\* before it, at least two same-weekday non-stockout days whose median
\* quantity is at least 10 (as when each sold 10) gets adjusted_quantity >= 10.
C3_MedianOfComparableDays ==
    (args.op = "create_training_dataset" /\ Returned) =>
        \A i \in 1..Len(ret.value) :
            LET r == ret.value[i]
                df == FeatureFrame
                H == historical_mask(df, r.date)
            IN  ( /\ r.stockout
                  /\ r.quantity = RInt(2)
                  /\ Cardinality(H) >= 2
                  /\ RLe(RInt(10), median(SortedQty(df, H))) )
                => RLe(RInt(10), r.adjusted_quantity)

\* the only stockout day of a history, sold 2, after three weeks at 10 on the
\* same weekday: adjusted to exactly 10
C3_Witness ==
    /\ args.op = "create_training_dataset" /\ Returned
    /\ \E i \in 1..Len(ret.value) :
         LET r == ret.value[i]
             df == FeatureFrame
         IN  /\ r.stockout
             /\ r.quantity = RInt(2)
             /\ r.date = Today - 1
             /\ \A d \in DOMAIN df : df[d].stockout => d = r.date
             /\ \A o \in {8, 15, 22} :
                    Today - o \in DOMAIN df /\ df[Today - o].quantity = RInt(10)
             /\ r.adjusted_quantity = RInt(10)
----------------------------------------------------------------------------
(* forecast.py: ForecastService._get_category_data and generate_forecasts *)

\* the quantities of a set of joined rows as a list of floats (the order of
\* the rows of a query without ORDER BY is arbitrary)
RECURSIVE QtyList(_)
QtyList(rows) ==
    IF rows = {} THEN <<>>
    ELSE LET t == CHOOSE x \in rows : TRUE
         IN  <<RInt(t.qty)>> \o QtyList(rows \ {t})

\* _get_category_data(restaurant_id, category_name, days): the rows joined
\* with MenuItem on the name; category_name is not used by the query
get_category_data(tx, category_name, days) ==
    LET start_date == Today - days
        result == {t \in tx : /\ t.date >= start_date
                              /\ \E m \in Menu : m.name = t.item}
        names == {t.item : t \in result}
        dates == {t.date : t \in result}
    IN  [df |-> [d \in dates |-> RInt(SumQty({t \in result : t.date = d}))],
         priors_data |-> [name \in names |-> QtyList({t \in result : t.item = name})]]

\* lines 176-178: the lists of priors_raw_data.values() chained
RECURSIVE all_item_sales_samples(_, _)
all_item_sales_samples(priors_raw_data, names) ==
    IF names = {} THEN <<>>
    ELSE LET name == CHOOSE x \in names : TRUE
         IN  priors_raw_data[name] \o all_item_sales_samples(priors_raw_data, names \ {name})

\* lines 214-228: the DemandForecast row of the i-th distribution; the
\* quantities are Decimal(f"{x:.2f}") in hundredths, model_name is
\* f"BayesianSeasonal_v1 ({f.logic_trigger})" as its two parts
DemandForecast(menu_item_name, last_date, i, f) ==
    [menu_item_name |-> menu_item_name,
     forecast_date |-> last_date + i,
     predicted_quantity |-> Round2(f.mean),
     p10_quantity |-> Round2(f.p10),
     p50_quantity |-> Round2(f.p50),
     p90_quantity |-> Round2(f.p90),
     model_name |-> <<"BayesianSeasonal_v1", f.logic_trigger>>]

\* range(days_ahead)
RangeLen(n) == IF n < 0 THEN 0 ELSE n

\* the effective category name of a request: category or "Global"
cat_context_of(category) ==
    IF category # None /\ category # "" THEN category ELSE "Global"

\* steps 2 to 6 of generate_forecasts on the rows of df_item and the category
\* data: the seasonality profile, the priors after learning and the
\* arguments of predict_item
prediction_inputs(priors, a, rows, cat) ==
    LET cat_context == cat_context_of(a.category)
        samples == all_item_sales_samples(cat.priors_data, DOMAIN cat.priors_data)
        empty == rows = <<>>
        last_date == IF empty THEN Today - 1 ELSE rows[Len(rows)].date
        k == RangeLen(a.days_ahead)
    IN  [seasonality_profile |-> calculate_seasonality(cat.df),
         samples |-> samples,
         df_cat |-> cat.df,
         priors_raw_data |-> cat.priors_data,
         learned |-> IF samples # <<>>
                     THEN learn_priors(priors, cat_context, samples) ELSE priors,
         history |-> [i \in 1..Len(rows) |-> rows[i].adjusted_quantity],
         history_dows |-> [i \in 1..Len(rows) |-> rows[i].dow],
         last_date |-> last_date,
         future_dates |-> [i \in 1..k |-> last_date + i],
         future_dows |-> [i \in 1..k |-> weekday(last_date + i)],
         cat_context |-> cat_context]

\* step 8 of generate_forecasts: save.  p is what predict_item returned or
\* raised on the inputs in.
save_forecasts(a, item_id, in, p) ==
    IF p.raised
    THEN [status |-> "ValueError", value |-> <<>>, priors |-> in.learned,
          locals |-> <<>>]
    ELSE [status |-> "ok",
          value |-> [i \in 1..Len(p.forecasts) |->
                       DemandForecast(a.menu_item_name, in.last_date, i, p.forecasts[i])],
          priors |-> in.learned,
          locals |-> [item_id |-> item_id, cat_context |-> in.cat_context,
                      last_date |-> in.last_date, samples |-> in.samples,
                      seasonality_profile |-> in.seasonality_profile,
                      df_cat |-> in.df_cat,
                      priors_raw_data |-> in.priors_raw_data,
                      history |-> in.history, predict |-> p]]

\* steps 7 and 8 of generate_forecasts on the inputs in
predict_and_save(a, item_id, in, draws) ==
    CHOOSE r \in
        {save_forecasts(a, item_id, in, p) :
            p \in {predict_item(in.learned,
                                [item_history |-> in.history,
                                 history_dows |-> in.history_dows,
                                 future_dates |-> in.future_dates,
                                 future_dows |-> in.future_dows,
                                 category |-> in.cat_context,
                                 seasonal_multipliers |-> in.seasonality_profile],
                                draws)}} : TRUE

\* steps 2 to 8 of generate_forecasts on the frame df_item of the item
forecast_from(tx, priors, a, item_id, df_item, draws) ==
    CHOOSE r \in
        {predict_and_save(a, item_id, in, draws) :
            in \in {prediction_inputs(priors, a, df_item.value,
                        get_category_data(tx, cat_context_of(a.category), 90))}} : TRUE

\* ForecastService.generate_forecasts(restaurant_id, **a) on the tables tx and
\* snaps with the forecaster's stored priors.  The result gives the exception
\* or the returned rows (which are also the rows added and committed), the
\* forecaster's priors after the call and the locals the claims speak about.
\* Each local is bound once, as the assignment of the code does.
generate_forecasts(tx, snaps, priors, a, draws) ==
    LET item == {m \in Menu : m.name = a.menu_item_name}
        item_id == IF item # {} THEN (CHOOSE m \in item : TRUE).id ELSE None
    IN  CHOOSE r \in
            {IF df_item.status # "ok"
             THEN [status |-> df_item.status, value |-> <<>>, priors |-> priors,
                   locals |-> <<>>]
             ELSE forecast_from(tx, priors, a, item_id, df_item, draws) :
                df_item \in {create_training_dataset(tx, snaps, item_id, 365)}} : TRUE

----------------------------------------------------------------------------
(* The forecast service: one generate_forecasts request on a database *)

\* days before today on which Burger may have sold 10 in one transaction
BurgerOffsets == {1, 3, 10}

\* a day's sale of an item recorded as `parts` transactions of q each
SplitRows(o, item, q, parts) ==
    {[id |-> <<item, o, k>>, date |-> Today - o, item |-> item,
      qty |-> q, stockout |-> FALSE,
      first_order |-> time(10 + k, 0), last_order |-> time(20 + k, 30)] :
        k \in 1..parts}

\* Burger on any of BurgerOffsets, with or without Pasta selling 6 on the
\* third day before today
HistoryTables ==
    {UNION {SplitRows(o, "Burger", 10, 1) : o \in on}
        \cup (IF pasta THEN SplitRows(3, "Pasta", 6, 1) ELSE {}) :
            on \in SUBSET BurgerOffsets, pasta \in BOOLEAN}

\* the other four Mains each sold 6 yesterday, in one transaction or in two
\* of 3, with or without Cola (Drinks) selling 30 yesterday
OtherMains == {"Pasta", "Steak", "Salad", "Soup"}
PoolTables ==
    {UNION {SplitRows(1, name, 6 \div parts, parts) : name \in OtherMains}
        \cup (IF cola THEN SplitRows(1, "Cola", 30, 1) ELSE {}) :
            parts \in {1, 2}, cola \in BOOLEAN}

ServiceTables == HistoryTables \cup PoolTables

\* days_ahead values of the requests
Horizons == {-1, 0, 1, 2}

ServiceArgs ==
    {[op |-> "generate_forecasts", menu_item_name |-> name,
      days_ahead |-> h, category |-> cat] :
        name \in {"Burger", "Ghost"}, h \in Horizons, cat \in {None, "Mains"}}

InitService ==
    /\ txns \in ServiceTables
    /\ snapshots = {}
    /\ forecasts = <<>>
    /\ category_priors = EmptyDict
    /\ args \in ServiceArgs
    /\ ret = Pending
    /\ rng = Unseeded
    /\ pc = NoThreads

\* service.generate_forecasts(restaurant_id, **args): the rows are added to
\* demand_forecasts and committed, the forecaster keeps the priors it learned
GenerateForecasts ==
    /\ args.op = "generate_forecasts"
    /\ ret = Pending
    /\ \E draws \in [1..RangeLen(args.days_ahead) -> Draws] :
         LET r == generate_forecasts(txns, snapshots, category_priors, args, draws)
         IN  /\ ret' = [status |-> r.status, value |-> r.value, locals |-> r.locals]
             /\ forecasts' = forecasts \o r.value
             /\ category_priors' = r.priors
    /\ UNCHANGED <<rng, pc, txns, snapshots, args>>

NextService == GenerateForecasts

SpecService == InitService /\ [][NextService]_vars

\* the requests of the service that have been answered, with or without error
Answered == args.op = "generate_forecasts" /\ ret # Pending

MenuNames == {m.name : m \in Menu}
\* C6: a request whose menu_item_name matches no MenuItem is answered with a
\* not-found error, returns no forecast and persists no DemandForecast row.
C6_UnknownItemNotFound ==
    (Answered /\ args.menu_item_name \notin MenuNames) =>
        /\ ret.status = "NotFound"
        /\ ret.value = <<>>
        /\ forecasts = <<>>

\* C7: a request with a negative horizon is rejected with an error and
\* returns no forecast list, not even an empty one.
C7_NegativeHorizonRejected ==
    (Answered /\ args.days_ahead < 0) => ret.status # "ok"

\* the sales rows of the requested item
OwnRows == {t \in txns : t.item = args.menu_item_name}

\* the item's last known history date, yesterday if it has no sales at all
LastHistoryDate ==
    IF OwnRows = {} THEN Today - 1 ELSE SetMax({t.date : t \in OwnRows})

\* C8: a request for a menu item with horizon h >= 0 returns exactly h rows,
\* for the dates L+1, ..., L+h in this order, where L is the item's last sale
\* date and yesterday only if the item has no sales at all.
C8_HorizonDates ==
    (Answered /\ ret.status = "ok" /\ args.menu_item_name \in MenuNames
        /\ args.days_ahead >= 0) =>
        /\ Len(ret.value) = args.days_ahead
        /\ \A i \in 1..Len(ret.value) :
               ret.value[i].forecast_date = LastHistoryDate + i

\* the (item, day) pairs on which the other items of the requested pooling
\* group sold, and each pair's total
GroupItemDays ==
    {<<t.item, t.date>> : t \in {x \in txns :
        /\ x.item # args.menu_item_name
        /\ \E m \in Menu : m.name = x.item /\ m.category = args.category}}
DayTotal(p) == SumQty({t \in txns : t.item = p[1] /\ t.date = p[2]})
RECURSIVE GroupTotal(_)
GroupTotal(pairs) ==
    IF pairs = {} THEN 0
    ELSE LET p == CHOOSE x \in pairs : TRUE
         IN  DayTotal(p) + GroupTotal(pairs \ {p})

\* the prior mean informed by the group: (2 + S) / (0.5 + n) over the
\* group's (item, day) totals
GroupPriorMean ==
    RDiv(RAdd(RInt(2), RInt(GroupTotal(GroupItemDays))),
         RAdd(R(1, 2), RInt(Cardinality(GroupItemDays))))

\* an item without sales is forecast within a group whose four other items
\* average 6 a day, and the first forecast day has multiplier 1.0
PoolingScenario ==
    /\ Answered /\ ret.status = "ok"
    /\ args.menu_item_name \in MenuNames
    /\ args.category # None
    /\ args.days_ahead >= 1
    /\ OwnRows = {}
    /\ Cardinality({p[1] : p \in GroupItemDays}) = 4
    /\ GroupTotal(GroupItemDays) = 6 * Cardinality(GroupItemDays)
    /\ ret.locals.predict.multipliers[weekday(ret.value[1].forecast_date)] = RInt(1)

\* C10: in the pooling scenario the forecast mean on the multiplier-1.0 day
\* is the group-informed prior mean and is closer to 6 than to 4.
C10_HierarchicalBorrowing ==
    PoolingScenario =>
        LET mean == expected_mean(ret.locals.predict.post, RInt(1))
        IN  /\ mean = GroupPriorMean
            /\ RLt(RAbs(RSub(mean, RInt(6))), RAbs(RSub(mean, RInt(4))))

----------------------------------------------------------------------------
(* Claims about the feature builder as a read-and-transform *)

----------------------------------------------------------------------------
(* Claims about the seasonality estimator *)

SeasonalityReturned == args.op = "_calculate_seasonality" /\ Returned

\* a reference series that is empty or has the same quantity on every day
\* (all zero, or zero variance)
Degenerate(df) == \A d, e \in DOMAIN df : df[d] = df[e]

\* C14: for an empty, all-zero or constant reference series
\* _calculate_seasonality returns without error the profile whose 7
\* multipliers are all 1.0.
C14_DegenerateSeriesFlat ==
    (SeasonalityReturned /\ Degenerate(args.df)) =>
        /\ ret.status = "ok"
        /\ DOMAIN ret.value = 0..6
        /\ \A i \in 0..6 : ret.value[i] = RInt(1)

\* a constant series of 10 a day with Mondays seen fewer than 4 times and
\* Saturdays 8 times gave the flat profile
C14_Witness ==
    /\ SeasonalityReturned
    /\ Degenerate(args.df)
    /\ \E d \in DOMAIN args.df : args.df[d] = RInt(10)
    /\ Cardinality(RowsOfDow(args.df, 0)) \in 1..3
    /\ Cardinality(RowsOfDow(args.df, 5)) = 8
    /\ ret.value = FlatProfile

\* the seven multipliers sum to 7.0 within 0.01
SumsToSeven(profile) == RLt(RAbs(RSub(ProfileSum(profile), RInt(7))), R(1, 100))

ShrinkWeight(c) == IF c < 4 THEN R(7, 10) ELSE IF c < 8 THEN R(85, 100) ELSE RInt(1)

\* mean of the quantities of the days in S
MeanOver(df, S) == RDiv(QtySum(df, S), RInt(Cardinality(S)))

ItemSales ==
    {t \in txns : /\ t.item = target_name_of(args.menu_item_id)
                  /\ t.date >= Today - args.days_history}

\* the item's total on a date, 0.0 on a day without sales
DailyTotal(d) == RInt(SumQty({t \in ItemSales : t.date = d}))

\* the rows are one per day for the days first, first + 1, ..., last, with
\* the item's total of the day as quantity
CoversDays(rows, first, last) ==
    /\ Len(rows) = (IF last >= first THEN last - first + 1 ELSE 0)
    /\ \A i \in 1..Len(rows) :
           /\ rows[i].date = first + i - 1
           /\ rows[i].quantity = DailyTotal(rows[i].date)

\* C16 as stated: for an item with sales in the lookback window the rows
\* cover every calendar day of the window, today - days_history .. today,
\* except the 7 leading days that lack lag_7; without sales history the
\* result is empty.
C16_AsStated ==
    (args.op = "create_training_dataset" /\ ret # Pending
        /\ args.menu_item_id # None) =>
        /\ ret.status = "ok"
        /\ IF ItemSales = {} THEN ret.value = <<>>
           ELSE CoversDays(ret.value, Today - args.days_history + 7, Today)

\* C16 amended: for an item with sales in the lookback window the rows are
\* in strictly ascending date order, one per date, and cover every calendar
\* day from 7 days after the item's first sale in the window to its last
\* sale in the window (none if these are less than 7 days apart), days
\* without sales having quantity 0; without sales in the window, or for an
\* unknown item, the result is empty.
C16_OrderedDailyCoverage ==
    (args.op = "create_training_dataset" /\ ret # Pending
        /\ args.menu_item_id # None) =>
        /\ ret.status = "ok"
        /\ IF ItemSales = {} THEN ret.value = <<>>
           ELSE CoversDays(ret.value,
                           SetMin({t.date : t \in ItemSales}) + 7,
                           SetMax({t.date : t \in ItemSales}))

\* rows returned for an item whose first sale lies after the start of the
\* window, with a synthesized day of quantity 0 between two days with sales
C16_Witness ==
    /\ args.op = "create_training_dataset" /\ Returned
    /\ args.menu_item_id = "m1"
    /\ Len(ret.value) >= 8
    /\ \E i, j, k \in 1..Len(ret.value) :
         /\ i < j /\ j < k
         /\ ret.value[i].quantity = RInt(10)
         /\ ret.value[j].quantity = RInt(0)
         /\ \A t \in txns : t.date # ret.value[j].date
         /\ ret.value[k].quantity = RInt(10)
    /\ ret.value[1].date > Today - args.days_history + 7

----------------------------------------------------------------------------
(* Hours open: calculate_hours_open on its own and inside the feature builder *)

\* order times the function is called with: around the 4 AM boundary, midday
\* and late evening
OrderTimes ==
    {time(h, m) : h \in {0, 2, 3, 4, 5, 11, 12, 20, 22, 23}, m \in {0, 30, 59}}
        \cup {NoTime}

\* Burger sold 10 nine days ago and 5 + 5 in two transactions yesterday, the
\* two with any known or unknown order times
TransactionTimes == {NoTime, time(11, 0), time(22, 0), time(2, 0)}
HoursTables ==
    {{[id |-> <<"Burger", 9, 1>>, date |-> Today - 9, item |-> "Burger", qty |-> 10,
       stockout |-> FALSE, first_order |-> time(11, 0), last_order |-> time(22, 0)],
      [id |-> <<"Burger", 1, 1>>, date |-> Today - 1, item |-> "Burger", qty |-> 5,
       stockout |-> FALSE, first_order |-> f1, last_order |-> l1],
      [id |-> <<"Burger", 1, 2>>, date |-> Today - 1, item |-> "Burger", qty |-> 5,
       stockout |-> FALSE, first_order |-> f2, last_order |-> l2]} :
        f1 \in TransactionTimes, l1 \in TransactionTimes,
        f2 \in TransactionTimes, l2 \in TransactionTimes}

InitHours ==
    /\ snapshots = {}
    /\ forecasts = <<>>
    /\ category_priors = EmptyDict
    /\ ret = Pending
    /\ rng = Unseeded
    /\ pc = NoThreads
    /\ \/ /\ txns = {}
          /\ \E f \in OrderTimes, l \in OrderTimes :
                args = [op |-> "calculate_hours_open", first_order |-> f, last_order |-> l]
       \/ /\ txns \in HoursTables
          /\ args = [op |-> "create_training_dataset", menu_item_id |-> "m1",
                     days_history |-> 365]

\* calculate_hours_open(**args)
CalculateHoursOpen ==
    /\ args.op = "calculate_hours_open"
    /\ ret = Pending
    /\ ret' = [status |-> "ok",
               value |-> calculate_hours_open(args.first_order, args.last_order)]
    /\ UNCHANGED <<rng, pc, txns, snapshots, forecasts, category_priors, args>>

NextHours == CalculateHoursOpen \/ CreateTrainingDataset

SpecHours == InitHours /\ [][NextHours]_vars

\* minutes since 4 AM on the business-day clock
BusinessClock(t) == (t.hour * 60 + t.minute + 20 * 60) % (24 * 60)

InHourRange(x) == RLe(RInt(1), x) /\ RLe(x, RInt(24))

\* C18: calculate_hours_open returns 12.0 when the first or last order time is
\* missing; otherwise its value lies in [1.0, 24.0] and is the elapsed time
\* from first to last order on the 4 AM business-day clock, in hours, raised
\* to 1.0 or lowered to 24.0 when outside (20:00 to 02:00 gives 6.0); and
\* every hours_open of the rows create_training_dataset returns is in [1, 24].
C18_HoursOpen ==
    /\ (args.op = "calculate_hours_open" /\ Returned) =>
          IF args.first_order = NoTime \/ args.last_order = NoTime
          THEN ret.value = RInt(12)
          ELSE LET elapsed == R(BusinessClock(args.last_order)
                                    - BusinessClock(args.first_order), 60)
               IN  /\ InHourRange(ret.value)
                   /\ ret.value = (IF RLt(elapsed, RInt(1)) THEN RInt(1)
                                   ELSE IF RLt(RInt(24), elapsed) THEN RInt(24)
                                   ELSE elapsed)
                   /\ (args.first_order = time(20, 0) /\ args.last_order = time(2, 0))
                          => ret.value = RInt(6)
    /\ (args.op = "create_training_dataset" /\ Returned) =>
          \A i \in 1..Len(ret.value) : InHourRange(ret.value[i].hours_open)

\* the call for 20:00 to 02:00 has returned 6.0
C18_Witness ==
    /\ args.op = "calculate_hours_open" /\ Returned
    /\ args.first_order = time(20, 0) /\ args.last_order = time(2, 0)
    /\ ret.value = RInt(6)

----------------------------------------------------------------------------
(* The feature builder over nine weeks of the same weekday *)

\* what happened on the k-th same weekday before yesterday
WeekOptions(k) ==
    {"sold", "stockout"} \cup (IF k <= 2 THEN {"none"} ELSE {})

\* the sale of that day: 10 or 4 units, or 2 or 12 units with a stockout
WeekRow(k, opt) ==
    IF opt = "sold"
    THEN SaleRow(1 + 7 * k, "Burger", <<TRUE, IF k % 2 = 1 THEN 10 ELSE 4, FALSE>>)
    ELSE SaleRow(1 + 7 * k, "Burger", <<TRUE, IF k % 2 = 1 THEN 2 ELSE 12, TRUE>>)

\* Burger sold 2 with a stockout yesterday, and on the nine same weekdays
\* before as WeekOptions allows
LookbackTables ==
    {{SaleRow(1, "Burger", <<TRUE, 2, TRUE>>)}
        \cup {WeekRow(k, f[k]) : k \in {x \in 1..9 : f[x] # "none"}} :
            f \in {g \in [1..9 -> {"sold", "stockout", "none"}] :
                     \A k \in 1..9 : g[k] \in WeekOptions(k)}}

InitLookback ==
    /\ txns \in LookbackTables
    /\ snapshots = {}
    /\ forecasts = <<>>
    /\ category_priors = EmptyDict
    /\ \E days \in {365, 60} :
          args = [op |-> "create_training_dataset", menu_item_id |-> "m1",
                  days_history |-> days]
    /\ ret = Pending
    /\ rng = Unseeded
    /\ pc = NoThreads

NextLookback == CreateTrainingDataset

SpecLookback == InitLookback /\ [][NextLookback]_vars

\* the days of the frame 1 to 8 weeks before D that are not stockout days
WeeksBefore(df, D) ==
    {d \in {D - 7 * k : k \in 1..8} : d \in DOMAIN df /\ ~df[d].stockout}

\* C19: each returned stockout day D has adjusted_quantity = max(raw(D),
\* median of the raw quantities of the non-stockout days 1 to 8 weeks before
\* D) when there are at least 2 such days, and raw(D) * 1.3 otherwise.
C19_ImputationRule ==
    (args.op = "create_training_dataset" /\ Returned /\ ret.value # <<>>) =>
        \A df \in {FeatureFrame}, i \in 1..Len(ret.value) :
            LET r == ret.value[i]
                H == WeeksBefore(df, r.date)
                med == median(SortedQty(df, H))
            IN  r.stockout =>
                    IF Cardinality(H) >= 2
                    THEN r.adjusted_quantity =
                            (IF RLt(r.quantity, med) THEN med ELSE r.quantity)
                    ELSE r.adjusted_quantity = RMul(r.quantity, R(13, 10))

\* yesterday's stockout was raised to the median of at least two days of
\* which one lies exactly 8 weeks before, while an earlier stockout day of
\* the same result had fewer than two such days and got 1.3 times its quantity
C19_Witness ==
    /\ args.op = "create_training_dataset" /\ Returned /\ ret.value # <<>>
    /\ \E df \in {FeatureFrame}, i, j \in 1..Len(ret.value) :
         LET r == ret.value[i]
             e == ret.value[j]
         IN  /\ r.date = Today - 1 /\ r.stockout
             /\ Today - 57 \in WeeksBefore(df, r.date)
             /\ Today - 64 \in DOMAIN df
             /\ ~df[Today - 64].stockout
             /\ RLt(r.quantity, r.adjusted_quantity)
             /\ e.stockout
             /\ Cardinality(WeeksBefore(df, e.date)) < 2
             /\ e.adjusted_quantity = RMul(e.quantity, R(13, 10))

----------------------------------------------------------------------------
(* Claims about the data a forecast run pools *)

\* the sales of the last 90 days of the items of a pooling group, of every
\* menu item when no group is given
GroupSales(category) ==
    {t \in txns :
        /\ t.date >= Today - 90
        /\ \E m \in Menu : /\ m.name = t.item
                           /\ category # None => m.category = category}

\* C17: the reference series of a run and the observations its priors are
\* learned from are the sales of the items of the given pooling group only,
\* and the sales of the whole restaurant when no group is given.
C17_GroupOnlyData ==
    (Answered /\ ret.status = "ok") =>
        LET sales == GroupSales(args.category)
        IN  /\ DOMAIN ret.locals.priors_raw_data = {t.item : t \in sales}
            /\ DOMAIN ret.locals.df_cat = {t.date : t \in sales}
            /\ \A d \in DOMAIN ret.locals.df_cat :
                   ret.locals.df_cat[d] = RInt(SumQty({t \in sales : t.date = d}))

----------------------------------------------------------------------------
(* One ForecastService instance serving several runs, one after the other *)

\* the restaurants of the database; both list the items of Menu
Restaurants == {"r1", "r2"}

\* the rows of a table as rows of restaurant rid
OfRestaurant(rows, rid) == {t @@ [restaurant |-> rid] : t \in rows}

\* WHERE Transaction.restaurant_id == restaurant_id
RestaurantRows(tx, restaurant_id) == {t \in tx : t.restaurant = restaurant_id}

\* r1 sold Burger yesterday and three days ago; r2 sold nothing, or sold
\* Burger 100 days ago only, or sold Burger yesterday
RunTables ==
    {OfRestaurant(SplitRows(1, "Burger", 10, 1) \cup SplitRows(3, "Burger", 10, 1), "r1")
        \cup OfRestaurant(UNION {SplitRows(o, "Burger", 4, 1) : o \in on}, "r2") :
            on \in {{}, {100}, {1}}}

\* a service instance serves at most MaxRuns runs
MaxRuns == 2

RunArgs ==
    {[op |-> "generate_forecasts", restaurant_id |-> rid,
      menu_item_name |-> "Burger", days_ahead |-> 1, category |-> cat] :
        rid \in Restaurants, cat \in {None, "Mains"}}

\* service = ForecastService(db): a forecaster with no learned prior, no run
\* served yet
InitRuns ==
    /\ txns \in RunTables
    /\ snapshots = {}
    /\ forecasts = <<>>
    /\ category_priors = EmptyDict
    /\ args = [op |-> "ForecastService", run |-> 0]
    /\ ret = Pending
    /\ rng = Unseeded
    /\ pc = NoThreads

\* service.generate_forecasts(**a) on the instance that served args.run runs:
\* self.forecaster keeps the priors of the earlier runs
ServeRun(a) ==
    /\ args.run < MaxRuns
    /\ \E draws \in [1..RangeLen(a.days_ahead) -> Draws] :
         LET r == generate_forecasts(RestaurantRows(txns, a.restaurant_id),
                                     snapshots, category_priors, a, draws)
         IN  /\ ret' = [status |-> r.status, value |-> r.value,
                        locals |-> r.locals, draws |-> draws]
             /\ forecasts' = forecasts \o r.value
             /\ category_priors' = r.priors
    /\ args' = a @@ [run |-> args.run + 1]
    /\ UNCHANGED <<rng, pc, txns, snapshots>>

NextRuns == \E a \in RunArgs : ServeRun(a)

SpecRuns == InitRuns /\ [][NextRuns]_vars

\* the same run on ForecastService(db), freshly constructed, with the same
\* draws of the generator
FreshRun ==
    generate_forecasts(RestaurantRows(txns, args.restaurant_id), snapshots,
                       EmptyDict, args, ret.draws)

\* C12: a run on a service instance that has already served other runs
\* returns the same forecasts as the same run on a freshly constructed
\* instance, its prior being the one relearned from the data current at
\* that run.
C12_NoCrossRunState ==
    (args.op = "generate_forecasts" /\ ret # Pending) =>
        \A fresh \in {FreshRun} :
            /\ ret.status = fresh.status
            /\ ret.value = fresh.value
            /\ ret.locals.predict.prior = fresh.locals.predict.prior

----------------------------------------------------------------------------
(* Two requests served at once: each worker thread builds its own
   ForecastService and calls generate_forecasts; np.random is the one
   generator of the process *)

Threads == {"t1", "t2"}

\* calls of nbinom.rvs since the last seeding
StreamPositions == 0..3

\* what nbinom.rvs returns at each position of the stream started by
\* np.random.seed(42).  The requests below ask for the same item on the same
\* rows, so every call has the same parameters.
Streams == [StreamPositions -> Draws]

\* the requests of one thread
ThreadArgs ==
    {[op |-> "generate_forecasts", menu_item_name |-> "Burger",
      days_ahead |-> h, category |-> None] : h \in {1, 2}}

\* Burger sold 10 on each day of BurgerOffsets, or nothing was sold
ThreadTables == {UNION {SplitRows(o, "Burger", 10, 1) : o \in BurgerOffsets}, {}}

\* a thread that has not reached predict_item's sampling
NotStarted == [at |-> "start", base_samples |-> <<>>]

InitThreads ==
    /\ txns \in ThreadTables
    /\ snapshots = {}
    /\ forecasts = <<>>
    /\ category_priors = EmptyDict
    /\ args \in [Threads -> ThreadArgs]
    /\ ret = [t \in Threads |-> Pending]
    /\ rng \in {[pos |-> 0, stream |-> st] : st \in Streams}
    /\ pc = [t \in Threads |-> NotStarted]

\* bayesian.py line 135, np.random.seed(42), reached by thread t after the
\* reads and the prior learning of its own service: the generator of the
\* process restarts its stream
SeedGenerator(t) ==
    /\ pc[t].at = "start"
    /\ rng' = [rng EXCEPT !.pos = 0]
    /\ pc' = [pc EXCEPT ![t] = [at |-> "loop", base_samples |-> <<>>]]
    /\ UNCHANGED <<txns, snapshots, forecasts, category_priors, args, ret>>

\* bayesian.py line 144, stats.nbinom.rvs(nb_n, nb_p, size=n_samples), for
\* the next future date of thread t: the draw at the generator's position,
\* which advances
NbinomRvs(t) ==
    /\ pc[t].at = "loop"
    /\ Len(pc[t].base_samples) < RangeLen(args[t].days_ahead)
    /\ rng.pos \in StreamPositions
    /\ pc' = [pc EXCEPT ![t].base_samples = Append(@, rng.stream[rng.pos])]
    /\ rng' = [rng EXCEPT !.pos = @ + 1]
    /\ UNCHANGED <<txns, snapshots, forecasts, category_priors, args, ret>>

\* the loop of thread t is over: the forecasts are built from its draws,
\* saved and returned.  The priors learned stay in the thread's own service.
SaveAndReturn(t) ==
    /\ pc[t].at = "loop"
    /\ Len(pc[t].base_samples) = RangeLen(args[t].days_ahead)
    /\ LET r == generate_forecasts(txns, snapshots, EmptyDict, args[t], pc[t].base_samples)
       IN  /\ ret' = [ret EXCEPT ![t] = [status |-> r.status, value |-> r.value,
                                         locals |-> r.locals]]
           /\ forecasts' = forecasts \o r.value
    /\ pc' = [pc EXCEPT ![t].at = "done"]
    /\ UNCHANGED <<rng, txns, snapshots, category_priors, args>>

NextThreads == \E t \in Threads : SeedGenerator(t) \/ NbinomRvs(t) \/ SaveAndReturn(t)

SpecThreads == InitThreads /\ [][NextThreads]_vars

\* the run of thread t when no other run is under way: its calls of
\* nbinom.rvs are the first ones after the seeding
RunAlone(t) ==
    generate_forecasts(txns, snapshots, EmptyDict, args[t],
                       [i \in 1..RangeLen(args[t].days_ahead) |-> rng.stream[i - 1]])

\* C13: two forecast runs executing concurrently without locking, interleaved
\* at any point, each return the same result as when run alone.
C13_ConcurrentRunsIndependent ==
    (DOMAIN ret = Threads) =>
        \A t \in Threads :
            ret[t] # Pending =>
                \A alone \in {RunAlone(t)} :
                    /\ ret[t].status = alone.status
                    /\ ret[t].value = alone.value

----------------------------------------------------------------------------
(* A forecaster on its own: any sequence of learn_priors calls *)

\* learn_priors(category_data): the loop over category_data.items(), cats
\* being the keys still to be visited
RECURSIVE learn_priors_items(_, _, _)
learn_priors_items(priors, category_data, cats) ==
    IF cats = {} THEN priors
    ELSE LET cat == CHOOSE c \in cats : TRUE
         IN  learn_priors_items(learn_priors(priors, cat, category_data[cat]),
                                category_data, cats \ {cat})

\* pooling-group labels of the calls
LearnLabels == {"Mains", "Drinks", "Global"}

\* pooled observations of a group: none, a day without sales, two days of
\* 6, one day of 3, a refund of 3
LearnData == {<<>>, <<RInt(0)>>, <<RInt(6), RInt(6)>>, <<RInt(3)>>, <<RInt(-3)>>}

\* the category_data dicts: any labels, each with any of the observations
CategoryData == UNION {[cats -> LearnData] : cats \in SUBSET LearnLabels}

\* forecaster = BayesianForecaster()
InitLearn ==
    /\ txns = {}
    /\ snapshots = {}
    /\ forecasts = <<>>
    /\ category_priors = EmptyDict
    /\ args = [op |-> "BayesianForecaster"]
    /\ ret = Pending
    /\ rng = Unseeded
    /\ pc = NoThreads

\* forecaster.learn_priors(category_data), which returns None
LearnPriorsCall(category_data) ==
    /\ category_priors' =
           learn_priors_items(category_priors, category_data, DOMAIN category_data)
    /\ args' = [op |-> "learn_priors", category_data |-> category_data]
    /\ ret' = [status |-> "ok", value |-> None]
    /\ UNCHANGED <<rng, pc, txns, snapshots, forecasts>>

NextLearn == \E category_data \in CategoryData : LearnPriorsCall(category_data)

SpecLearn == InitLearn /\ [][NextLearn]_vars

\* the sum of a list of observations, from its last element down
RECURSIVE SumFromLast(_)
SumFromLast(data) ==
    IF Len(data) = 0 THEN RInt(0)
    ELSE RAdd(SumFromLast(SubSeq(data, 1, Len(data) - 1)), data[Len(data)])

\* C21: learn_priors sets, for each group with n >= 1 pooled observations
\* summing to S, alpha = 2.0 + S and beta = 0.5 + n; a group with zero
\* observations is assigned exactly the global prior (2.0, 0.5).
C21_LearnPriorsFormula ==
    args.op = "learn_priors" =>
        \A cat \in DOMAIN args.category_data :
            LET data == args.category_data[cat]
                n == Len(data)
                S == SumFromLast(data)
            IN  /\ cat \in DOMAIN category_priors
                /\ n >= 1 => category_priors[cat] =
                                 [alpha |-> RAdd(RInt(2), S), beta |-> RAdd(R(1, 2), RInt(n))]
                /\ n = 0 => category_priors[cat] = [alpha |-> RInt(2), beta |-> R(1, 2)]

\* a call naming one group with two observations of 6 and one with none
C21_Witness ==
    /\ args.op = "learn_priors"
    /\ DOMAIN args.category_data = {"Mains", "Drinks"}
    /\ args.category_data["Mains"] = <<RInt(6), RInt(6)>>
    /\ args.category_data["Drinks"] = <<>>
    /\ category_priors["Mains"] = [alpha |-> RInt(14), beta |-> R(5, 2)]
    /\ category_priors["Drinks"] = global_prior

\* every observation of every group of a call is >= 0
NonNegative(category_data) ==
    \A cat \in DOMAIN category_data :
        \A i \in 1..Len(category_data[cat]) : RLe(RInt(0), category_data[cat][i])

\* alpha > 0, beta > 0, alpha >= global alpha, beta >= global beta
PositivePrior(g) ==
    /\ RLt(RInt(0), g.alpha)
    /\ RLt(RInt(0), g.beta)
    /\ RLe(global_prior.alpha, g.alpha)
    /\ RLe(global_prior.beta, g.beta)

\* C22: a learn_priors call on non-negative observations leaves every group
\* it names with alpha > 0, beta > 0, alpha >= global_alpha and
\* beta >= global_beta, as is the global prior; so these hold after any
\* sequence of such calls.
C22_PriorsStayPositive ==
    [][NonNegative(args'.category_data) =>
          /\ PositivePrior(global_prior)
          /\ \A cat \in DOMAIN args'.category_data :
                 PositivePrior(category_priors'[cat])]_vars

\* a group learned from a day without sales, whose alpha is the global alpha,
\* next to a group learned from sales
C22_Witness ==
    /\ args.op = "learn_priors"
    /\ NonNegative(args.category_data)
    /\ \E c1, c2 \in DOMAIN args.category_data :
         /\ args.category_data[c1] = <<RInt(0)>>
         /\ category_priors[c1].alpha = global_prior.alpha
         /\ RLt(global_prior.beta, category_priors[c1].beta)
         /\ RLt(global_prior.alpha, category_priors[c2].alpha)

\* C30: each learn_priors call derives the prior of every group it names
\* from the fixed global prior and the data of that call only, so repeating
\* a call changes nothing; it leaves the priors of the groups it does not
\* name as they were, and the global prior stays (2.0, 0.5).
C30_LearnPriorsFrame ==
    [][LET category_data == args'.category_data
       IN  /\ DOMAIN category_priors' = DOMAIN category_priors \cup DOMAIN category_data
           /\ \A cat \in DOMAIN category_data :
                  category_priors'[cat] =
                      learn_priors(EmptyDict, cat, category_data[cat])[cat]
           /\ \A cat \in DOMAIN category_priors \ DOMAIN category_data :
                  category_priors'[cat] = category_priors[cat]
           /\ (args.op = "learn_priors" /\ args.category_data = category_data) =>
                  category_priors' = category_priors
           /\ select_prior(category_priors', None).prior = [alpha |-> RInt(2), beta |-> R(1, 2)]]_vars

\* a group relearned from sales while another group keeps the prior an
\* earlier call gave it
C30_Witness ==
    /\ args.op = "learn_priors"
    /\ DOMAIN args.category_data = {"Mains"}
    /\ args.category_data["Mains"] = <<RInt(6), RInt(6)>>
    /\ category_priors["Mains"] = [alpha |-> RInt(14), beta |-> R(5, 2)]
    /\ "Drinks" \in DOMAIN category_priors
    /\ category_priors["Drinks"] = [alpha |-> RInt(5), beta |-> R(3, 2)]

----------------------------------------------------------------------------
(* Claims about the prior predict_item starts from *)

\* a prior has been learned for the pooling-group label of the call
LearnedFor(category) ==
    category # None /\ category # "" /\ category \in DOMAIN category_priors

\* C23: predict_item uses the group-specific prior if and only if a prior has
\* been learned for the requested pooling-group label, and the global prior
\* (2.0, 0.5) in every other case (no label, or a label without a stored
\* prior); the posterior is that prior updated with the retained history,
\* never another group's prior.
C23_PriorSelection ==
    (args.op = "predict_item" /\ ret # Pending) =>
        LET used == IF LearnedFor(args.category)
                    THEN category_priors[args.category]
                    ELSE [alpha |-> RInt(2), beta |-> R(1, 2)]
            deseason == deseasonalized_history(args.item_history, args.history_dows,
                                               ret.locals.multipliers)
        IN  /\ ret.locals.prior_source = "Category" <=> LearnedFor(args.category)
            /\ ret.locals.prior = used
            /\ ret.locals.post.post_alpha = RAdd(used.alpha, RSum(deseason))
            /\ ret.locals.post.post_beta = RAdd(used.beta, RInt(Len(deseason)))

\* a forecast for the label "Sides" from a forecaster that learned a prior
\* for "Mains" only
C23_Witness ==
    /\ args.op = "predict_item" /\ Returned
    /\ args.category = "Sides"
    /\ "Mains" \in DOMAIN category_priors
    /\ category_priors["Mains"] = [alpha |-> RInt(14), beta |-> R(5, 2)]
    /\ ret.locals.prior = global_prior
    /\ ret.locals.post.n > 0

----------------------------------------------------------------------------
(* predict_item on histories around five points, with closed days *)

\* multipliers on both sides of the thresholds |m - 1| > 0.1 and m < 0.01:
\* Mon 1.125, Tue 1.0625, Wed 0.875, Thu 1/128, Fri 1/64, Sat closed; Sunday
\* has no entry
ThresholdProfile ==
    (0 :> R(9, 8)) @@ (1 :> R(17, 16)) @@ (2 :> R(7, 8)) @@ (3 :> R(1, 128))
        @@ (4 :> R(1, 64)) @@ (5 :> RInt(0))

\* history points (quantity, day of week)
LongHistPoints == {<<9, 0>>, <<4, 3>>, <<1, 4>>, <<6, 6>>}

\* a history: k points p then j points q
LongHistories ==
    {Repeat(p, k) \o Repeat(q, j) :
        p \in LongHistPoints, q \in LongHistPoints, k \in {0, 4, 5}, j \in {0, 1, 2}}

HistoryArgs ==
    {[op |-> "predict_item",
      item_history |-> QtyOf(h),
      history_dows |-> DowOf(h),
      future_dates |-> [i \in 1..Len(f) |-> Today + i],
      future_dows |-> f,
      category |-> None,
      seasonal_multipliers |-> sm] :
        h \in LongHistories,
        f \in {<<0>>, <<1>>, <<2, 6>>},
        sm \in {EmptyDict, ThresholdProfile}}

InitHistory ==
    /\ txns = {}
    /\ snapshots = {}
    /\ forecasts = <<>>
    /\ category_priors = EmptyDict
    /\ args \in HistoryArgs
    /\ ret = Pending
    /\ rng = Unseeded
    /\ pc = NoThreads

NextHistory == PredictItem

SpecHistory == InitHistory /\ [][NextHistory]_vars

\* the multiplier of a day of week in a call: the profile's entry, 1.0 when
\* the profile has none or no profile is given
MultiplierOf(dow) ==
    IF dow \in DOMAIN args.seasonal_multipliers
    THEN args.seasonal_multipliers[dow] ELSE RInt(1)

\* the history points of a call that are retained
Retained ==
    {i \in 1..Min2(Len(args.item_history), Len(args.history_dows)) :
        ~RLt(MultiplierOf(args.history_dows[i]), R(1, 100))}

\* the sum of the retained points, each divided by its multiplier
RECURSIVE SumDivided(_)
SumDivided(I) ==
    IF I = {} THEN RInt(0)
    ELSE LET i == CHOOSE x \in I : TRUE
         IN  RAdd(RDiv(args.item_history[i], MultiplierOf(args.history_dows[i])),
                  SumDivided(I \ {i}))

\* C24: predict_item discards every history point whose day-of-week
\* multiplier is below 0.01 and divides every other point by its multiplier;
\* with the n retained points summing to S' it uses post_alpha = prior_alpha
\* + S', post_beta = prior_beta + n, r = post_alpha and p = post_beta /
\* (post_beta + 1) as the one base distribution of all future dates of the
\* call.
C24_DeseasonalizedPosterior ==
    (args.op = "predict_item" /\ ret # Pending) =>
        LET n == Cardinality(Retained)
            S == SumDivided(Retained)
            post == ret.locals.post
        IN  /\ post.n = n
            /\ post.post_alpha = RAdd(ret.locals.prior.alpha, S)
            /\ post.post_beta = RAdd(ret.locals.prior.beta, RInt(n))
            /\ post.nb_n = post.post_alpha
            /\ post.nb_p = RDiv(post.post_beta, RAdd(post.post_beta, RInt(1)))
            /\ \A i \in 1..Len(ret.value) : ret.value[i].confidence_n = n

\* four Mondays of 9 at multiplier 1.125 and two Thursdays at multiplier
\* 1/128: the Thursdays are discarded, alpha = 2 + 4 * 8, beta = 0.5 + 4,
\* forecast for two dates
C24_Witness ==
    /\ args.op = "predict_item" /\ Returned
    /\ Len(args.item_history) = 6
    /\ args.history_dows = <<0, 0, 0, 0, 3, 3>>
    /\ args.seasonal_multipliers = ThresholdProfile
    /\ ret.locals.post.n = 4
    /\ ret.locals.post.post_alpha = RInt(34)
    /\ ret.locals.post.post_beta = R(9, 2)
    /\ ret.locals.post.nb_p = R(9, 11)
    /\ Len(ret.value) = 2

\* the parts of an explanation of the given kind
PartsOf(trigger, kind) == {i \in 1..Len(trigger) : trigger[i].kind = kind}

\* C26: for each forecast returned by predict_item, logic_trigger contains
\* 'Seasonality <m to 2 decimals>x' if and only if that date's multiplier m
\* has |m - 1.0| > 0.1, contains 'Cold Start' if and only if the number n of
\* retained history points is < 5, and is 'Normal' if and only if neither
\* applies.
C26_LogicTrigger ==
    (args.op = "predict_item" /\ Returned) =>
        \A i \in 1..Len(ret.value) :
            LET trigger == ret.value[i].logic_trigger
                m == MultiplierOf(args.future_dows[i])
                far == RLt(R(1, 10), RAbs(RSub(m, RInt(1))))
                cold == Cardinality(Retained) < 5
            IN  /\ PartsOf(trigger, "Seasonality") # {} <=> far
                /\ \A k \in PartsOf(trigger, "Seasonality") : trigger[k].m2 = Round2(m)
                /\ PartsOf(trigger, "Cold Start") # {} <=> cold
                /\ trigger = <<[kind |-> "Normal", m2 |-> 0, source |-> ""]>>
                       <=> (~far /\ ~cold)

\* five retained points out of seven: Wednesday (0.875) is explained as
\* 'Seasonality 0.88x' only, Sunday (no entry) as 'Normal'
C26_Witness ==
    /\ args.op = "predict_item" /\ Returned
    /\ Len(args.item_history) = 7
    /\ Cardinality(Retained) = 5
    /\ args.future_dows = <<2, 6>>
    /\ ret.value[1].logic_trigger = <<[kind |-> "Seasonality", m2 |-> 88, source |-> ""]>>
    /\ ret.value[2].logic_trigger = <<[kind |-> "Normal", m2 |-> 0, source |-> ""]>>

----------------------------------------------------------------------------
(* Claims about the observations the orchestrator pools *)

\* the rows of the last 90 days the orchestrator pools, whatever the label
PooledRows ==
    {t \in txns : t.date >= Today - 90 /\ \E m \in Menu : m.name = t.item}

\* the (item, day) pairs with sales among the pooled rows
PooledItemDays == {<<t.item, t.date>> : t \in PooledRows}

\* the days on which an item has pooled sales
PooledDays(name) == {p[2] : p \in {q \in PooledItemDays : q[1] = name}}

\* C25: each data point fed to the prior learner is one item's total quantity
\* of one calendar day: n counts the (item, day) pairs, S is the sum of the
\* daily totals, and every data point of an item is the total of one of its
\* days, however many transactions make up the day's sales.
C25_PerItemDayObservations ==
    (Answered /\ ret.status = "ok") =>
        /\ Len(ret.locals.samples) = Cardinality(PooledItemDays)
        /\ RSum(ret.locals.samples) = RInt(SumQty(PooledRows))
        /\ \A name \in DOMAIN ret.locals.priors_raw_data :
               LET data == ret.locals.priors_raw_data[name]
               IN  /\ Len(data) = Cardinality(PooledDays(name))
                   /\ \A i \in 1..Len(data) :
                          \E d \in PooledDays(name) : data[i] = RInt(DayTotal(<<name, d>>))


\* the target item's own sales of the last 90 days
OwnPooledRows == {t \in PooledRows : t.item = args.menu_item_name}

\* the dates of the item history handed to predict_item
HistoryDates ==
    {ret.locals.last_date - Len(ret.locals.history) + i :
        i \in 1..Len(ret.locals.history)}

\* the history value of a date of HistoryDates
HistoryAt(d) ==
    ret.locals.history[d - (ret.locals.last_date - Len(ret.locals.history))]

\* a sale of the target item goes into the group prior and into the
\* item-level update
CountedTwice(t) ==
    /\ args.menu_item_name \in DOMAIN ret.locals.priors_raw_data
    /\ \E i \in 1..Len(ret.locals.priors_raw_data[t.item]) :
           ret.locals.priors_raw_data[t.item][i] = RInt(t.qty)
    /\ t.date \in HistoryDates
    /\ RLe(RInt(DayTotal(<<t.item, t.date>>)), HistoryAt(t.date))

\* C29 as stated: every sale of the target item in the last 90 days is
\* counted twice in the posterior, once in the group prior and once in the
\* item-level update.
C29_AsStated ==
    (Answered /\ ret.status = "ok") =>
        \A t \in OwnPooledRows : CountedTwice(t)

\* C29: the observations passed to learn_priors include every sale of the
\* target item of the last 90 days, and the prior is learned from them; the
\* sale is counted a second time, in the item-level update, exactly when its
\* date is 7 days or more after the item's first sale date, the first 7 days
\* of the item's frame being dropped; the posterior's beta is then 0.5 plus
\* the number of pooled observations plus the number of history days.
C29_OwnSalesInPrior ==
    (Answered /\ ret.status = "ok" /\ OwnPooledRows # {}) =>
        LET own == ret.locals.priors_raw_data[args.menu_item_name]
            first == SetMin({t.date : t \in OwnRows})
            post == ret.locals.predict.post
        IN  /\ Len(own) = Cardinality(OwnPooledRows)
            /\ RSum(own) = RInt(SumQty(OwnPooledRows))
            /\ ret.locals.predict.prior =
                   [alpha |-> RAdd(RInt(2), RInt(SumQty(PooledRows))),
                    beta |-> RAdd(R(1, 2), RInt(Cardinality(PooledRows)))]
            /\ \A t \in OwnPooledRows : CountedTwice(t) <=> t.date >= first + 7
            /\ post.post_beta =
                   RAdd(R(1, 2), RInt(Len(ret.locals.samples) + Len(ret.locals.history)))

\* Burger sold 10 on three days, the first of them nine days before the last:
\* the prior holds all three sales (alpha 32, beta 3.5), the history the last
\* three days, and the two later sales are in both (alpha 52, beta 6.5)
C29_Witness ==
    /\ Answered /\ ret.status = "ok"
    /\ args.menu_item_name = "Burger"
    /\ Cardinality(OwnPooledRows) = 3
    /\ DOMAIN ret.locals.priors_raw_data = {"Burger"}
    /\ Len(ret.locals.history) = 3
    /\ ret.locals.predict.prior = [alpha |-> RInt(32), beta |-> R(7, 2)]
    /\ ret.locals.predict.post.post_alpha = RInt(52)
    /\ ret.locals.predict.post.post_beta = R(13, 2)

----------------------------------------------------------------------------
(* Claim about manually flagged stockouts *)

\* the item has an InventorySnapshot with stockout_flag 'Y' on date d
ManuallyFlagged(d) ==
    \E sn \in snapshots : sn.item_id = args.menu_item_id /\ sn.date = d

\* C27: every date in the output of create_training_dataset for which the
\* item has a manually flagged stockout has stockout = true, whether or not
\* the item recorded a sale on that date.
C27_ManualStockoutFlag ==
    (args.op = "create_training_dataset" /\ Returned /\ args.menu_item_id # None) =>
        \A i \in 1..Len(ret.value) :
            ManuallyFlagged(ret.value[i].date) => ret.value[i].stockout

----------------------------------------------------------------------------
(* predict_item called again and again in one thread, the generator being
   used by other code in between *)

\* states the generator is in before a call: the number of draws made since
\* it was last seeded
ReseedPositions == 0..3

\* what the first and the second nbinom.rvs after np.random.seed(42) return
\* for the parameters of the call
SeededStreams == [0..1 -> Draws]

ReseedArgs ==
    {a \in PredictArgs : /\ Len(a.item_history) = Len(a.history_dows)
                         /\ Len(a.item_history) <= 1
                         /\ a.future_dows # <<>>
                         /\ a.category # "Sides"
                         /\ a.seasonal_multipliers = EmptyDict}

InitReseed ==
    /\ txns = {}
    /\ snapshots = {}
    /\ forecasts = <<>>
    /\ category_priors \in {EmptyDict, learn_priors(EmptyDict, "Mains", <<RInt(6), RInt(6)>>)}
    /\ args \in ReseedArgs
    /\ ret = Pending
    /\ rng \in {[pos |-> p, stream |-> st] : p \in ReseedPositions, st \in SeededStreams}
    /\ pc = NoThreads

\* a call without line 135: the draws continue the generator's stream
PredictItemUnseeded ==
    /\ args.op = "predict_item"
    /\ LET k == Min2(Len(args.future_dates), Len(args.future_dows))
           draws == [i \in 1..k |-> rng.stream[(rng.pos + i - 1) % 2]]
           r == predict_item(category_priors, args, draws)
       IN  /\ ret' = [status |-> IF r.raised THEN "ValueError" ELSE "ok",
                      value |-> r.forecasts,
                      locals |-> r]
           /\ rng' = [rng EXCEPT !.pos = (rng.pos + k) % 4]
    /\ UNCHANGED <<pc, txns, snapshots, forecasts, category_priors, args>>

\* forecaster.predict_item(**args) with its generator: np.random.seed(42)
\* restarts the stream, each future date takes the next draw
PredictItemSeeded ==
    /\ args.op = "predict_item"
    /\ LET k == Min2(Len(args.future_dates), Len(args.future_dows))
           draws == [i \in 1..k |-> rng.stream[i - 1]]
           r == predict_item(category_priors, args, draws)
       IN  /\ ret' = [status |-> IF r.raised THEN "ValueError" ELSE "ok",
                      value |-> r.forecasts,
                      locals |-> r]
           /\ rng' = [rng EXCEPT !.pos = IF r.raised THEN 0 ELSE k]
    /\ UNCHANGED <<pc, txns, snapshots, forecasts, category_priors, args>>

\* other code of the thread draws from np.random
UseGenerator ==
    /\ rng.pos + 1 \in ReseedPositions
    /\ rng' = [rng EXCEPT !.pos = @ + 1]
    /\ UNCHANGED <<pc, txns, snapshots, forecasts, category_priors, args, ret>>

NextReseed == PredictItemSeeded \/ UseGenerator

SpecReseed == InitReseed /\ [][NextReseed]_vars

\* C28: two calls of predict_item with identical arguments and identical
\* stored priors return identical distributions, whatever the state of the
\* random generator before the call.
C28_Deterministic ==
    [][(ret # Pending /\ ret' # Pending /\ args' = args
            /\ category_priors' = category_priors) =>
          /\ ret'.status = ret.status
          /\ ret'.value = ret.value]_vars

\* a call for two dates has returned two different distributions and the
\* generator has been used since, so the next call starts from another state
C28_Witness ==
    /\ ret # Pending /\ ret.status = "ok"
    /\ Len(ret.value) = 2
    /\ ret.value[1].mean # ret.value[2].mean
    /\ rng.pos = 3

====
